---- MODULE Spec2Model ----
(***************************************************************************)
(* Retention / purge engine of 3speakstorageadmin: the catalog of videos,  *)
(* the storage classifier, the criteria selectors of DatabaseService and   *)
(* the per-command select -> classify -> mutate -> mark loops.             *)
(***************************************************************************)
EXTENDS Integers, Sequences, FiniteSets, TLC

(* ------------------------------ bounds -------------------------------- *)
\* number of videos in the catalog
NumVideos == 2
VideoIds == 1..NumVideos
Runs == {1, 2}
\* an option or a string field that is not given (undefined, null or '')
Absent == ""

(* --------------------------- file names ------------------------------- *)
\* A filename is [scheme, path]: scheme "ipfs" stands for the "ipfs://" prefix,
\* path is the '/'-separated rest; NoName is the missing or empty filename.
Hex32Token == "0123456789abcdef0123456789abcdef"
CidToken == "QmA"
\* last segments that match /\.[a-zA-Z0-9]{2,5}$/
ExtSegments == {"vid.mp4", "orig.mov", "manifest.m3u8"}
\* segments that match /^[a-f0-9]{32}$/
Hex32Segments == {Hex32Token}
\* segments that match /^Qm[1-9A-HJ-NP-Za-km-z]{44}$/
CidSegments == {CidToken}

NoName == [scheme |-> "", path |-> <<>>]
FnIpfs == [scheme |-> "ipfs", path |-> <<CidToken>>]
FnIpfsManifest == [scheme |-> "ipfs", path |-> <<CidToken, "manifest.m3u8">>]
FnS3 == [scheme |-> "", path |-> <<"vid.mp4">>]
FnS3Path == [scheme |-> "", path |-> <<"up", "vid.mp4">>]
FnHex == [scheme |-> "", path |-> <<Hex32Token>>]
FnNull == [scheme |-> "", path |-> <<"null">>]
FnOrig == [scheme |-> "", path |-> <<"orig.mov">>]

HasName(f) == f # NoName
StartsWithIpfs(f) == f.scheme = "ipfs"

\* DatabaseService.isRealS3Filename
isRealS3Filename(f) ==
  IF ~HasName(f) \/ f = FnNull \/ StartsWithIpfs(f) THEN FALSE
  ELSE LET hasFileExtension == f.path[Len(f.path)] \in ExtSegments
           hasSlashPath == Len(f.path) > 1
           isJustHash == Len(f.path) = 1 /\ f.path[1] \in Hex32Segments
       IN (hasFileExtension \/ hasSlashPath) /\ ~isJustHash

\* DatabaseService.getVideoStorageType
getVideoStorageType(video) ==
  IF StartsWithIpfs(video.filename) THEN "ipfs"
  ELSE IF HasName(video.filename) /\ isRealS3Filename(video.filename) THEN "s3"
  ELSE "unknown"

\* IpfsService.extractHashFromFilename: Absent stands for null
extractHashFromFilename(f) ==
  IF ~HasName(f) THEN Absent
  ELSE IF StartsWithIpfs(f) THEN f.path[1]
  ELSE IF Len(f.path) = 1 /\ f.path[1] \in CidSegments THEN f.path[1]
  ELSE IF Len(f.path) > 1 /\ f.path[1] \in CidSegments THEN f.path[1]
  ELSE Absent

\* nuke-account collectIpfsHashes: the hashes in the order they are found (the
\* catalog's videos carry no ipfshash, video_v2, video_v1 or videoManifest
\* field, so filename is the one candidate)
collectIpfsHashes(video) ==
  LET extracted == extractHashFromFilename(video.filename)
  IN IF ~HasName(video.filename) THEN <<>>
     ELSE IF extracted # Absent /\ extracted \in CidSegments THEN <<extracted>>
     ELSE IF ~StartsWithIpfs(video.filename) /\ Len(video.filename.path) = 1
             /\ video.filename.path[1] \in CidSegments
          THEN <<video.filename.path[1]>>
     ELSE <<>>

Range(seq) == {seq[k] : k \in 1..Len(seq)}

\* [...new Set(list)]: the first occurrence of every element, in order
RECURSIVE Dedup(_)
Dedup(seq) ==
  IF seq = <<>> THEN <<>>
  ELSE LET front == Dedup(SubSeq(seq, 1, Len(seq) - 1))
           last == seq[Len(seq)]
       IN IF last \in Range(front) THEN front ELSE Append(front, last)

\* An S3 key or prefix is the sequence of its '/'-separated segments; a prefix
\* ends with the empty segment (its trailing '/').
Playlists == <<"1080p.m3u8", "720p.m3u8", "480p.m3u8", "360p.m3u8", "default.m3u8">>
Folders == <<"1080p", "720p", "480p", "360p", "thumbnails">>
OriginalDirs == <<"originals", "uploads", "raw", "source">>

\* DatabaseService.getS3Paths
getS3Paths(video) ==
  LET isS3Name(f) == HasName(f) /\ ~StartsWithIpfs(f)
      originalBasename == video.originalFilename.path[Len(video.originalFilename.path)]
      files ==
        (IF video.permlink # Absent
           THEN [k \in 1..Len(Playlists) |-> <<video.permlink, Playlists[k]>>]
           ELSE <<>>)
        \o (IF isS3Name(video.filename) THEN <<video.filename.path>> ELSE <<>>)
        \o (IF isS3Name(video.originalFilename)
              THEN <<video.originalFilename.path>>
                   \o [k \in 1..Len(OriginalDirs) |-> <<OriginalDirs[k], originalBasename>>]
              ELSE <<>>)
      prefixes ==
        IF video.permlink # Absent
          THEN [k \in 1..Len(Folders) |-> <<video.permlink, Folders[k], "">>]
               \o << <<video.permlink, "">> >>
          ELSE <<>>
  IN [files |-> Dedup(files), prefixes |-> Dedup(prefixes)]

(* ----------------------------- catalog -------------------------------- *)
BannedOwner == "bad"
OtherOwner == "bob"
\* contentcreators with banned: true (DatabaseService.getBannedUsers)
getBannedUsers == {BannedOwner}

\* a failed IPFS upload of a banned account
ProfIpfsFailed ==
  [filename |-> FnIpfsManifest, originalFilename |-> NoName, permlink |-> "p1",
   owner |-> BannedOwner, status |-> "encoding_failed", views |-> 0,
   ageDays |-> 400, size |-> 100]
\* a stuck upload whose filename is an upload-session id (classified unknown)
ProfUnknownStuck ==
  [filename |-> FnHex, originalFilename |-> NoName, permlink |-> "p1",
   owner |-> BannedOwner, status |-> "uploaded", views |-> 0,
   ageDays |-> 400, size |-> 10]
\* an S3 video an admin marked deleted
ProfS3Deleted ==
  [filename |-> FnS3Path, originalFilename |-> FnOrig, permlink |-> "p2",
   owner |-> BannedOwner, status |-> "deleted", views |-> 1000,
   ageDays |-> 30, size |-> 250]
\* a published S3 video with few views
ProfS3Published ==
  [filename |-> FnS3, originalFilename |-> NoName, permlink |-> "p2",
   owner |-> OtherOwner, status |-> "published", views |-> 3,
   ageDays |-> 30, size |-> 50]

Profiles == {ProfIpfsFailed, ProfUnknownStuck, ProfS3Deleted, ProfS3Published}

\* a published S3 video that is more than six months old
ProfS3Old ==
  [filename |-> FnS3Path, originalFilename |-> FnOrig, permlink |-> "p2",
   owner |-> OtherOwner, status |-> "published", views |-> 1000,
   ageDays |-> 400, size |-> 250]

\* an IPFS upload left in 'publish_manual'
ProfIpfsAbandoned ==
  [filename |-> FnIpfsManifest, originalFilename |-> NoName, permlink |-> "p1",
   owner |-> OtherOwner, status |-> "publish_manual", views |-> 0,
   ageDays |-> 30, size |-> 70]

\* _id order is creation order: video 1 is the oldest
Catalogs ==
  {c \in [VideoIds -> Profiles] :
     \A i, j \in VideoIds : i < j => c[i].ageDays >= c[j].ageDays}

NewVideo(profile) ==
  [filename |-> profile.filename, originalFilename |-> profile.originalFilename,
   permlink |-> profile.permlink, owner |-> profile.owner,
   status |-> profile.status, views |-> profile.views,
   ageDays |-> profile.ageDays, size |-> profile.size,
   cleanedUp |-> FALSE, wasManuallyDeleted |-> FALSE,
   originalStatus |-> Absent, cleanupStorageType |-> Absent]

(* ---------------------------- selectors ------------------------------- *)
Min(a, b) == IF a < b THEN a ELSE b

\* .sort({ created: 1 }): oldest first
SortCreatedAsc(S) ==
  [k \in 1..Cardinality(S) |->
     CHOOSE v \in S : Cardinality({u \in S : u < v}) = k - 1]
\* .sort({ created: -1 }): newest first
SortCreatedDesc(S) ==
  [k \in 1..Cardinality(S) |->
     CHOOSE v \in S : Cardinality({u \in S : u > v}) = k - 1]
\* cursor.limit(n)
Limit(seq, n) == SubSeq(seq, 1, Min(n, Len(seq)))
\* Array.prototype.filter
RECURSIVE Filter(_, _)
Filter(seq, keep) ==
  IF seq = <<>> THEN <<>>
  ELSE (IF Head(seq) \in keep THEN <<Head(seq)>> ELSE <<>>) \o Filter(Tail(seq), keep)

DefaultCleanupLimit == 100
DefaultOlderThanDays == 365
DefaultViewThreshold == 10
DefaultCriteriaLimit == 1000

\* DatabaseService.getVideosForCleanup
getVideosForCleanup(coll, type, limit, olderThanDays, viewThreshold) ==
  LET typeMatch(v) ==
        CASE type = "banned-users" -> coll[v].owner \in getBannedUsers
          [] type = "stuck-uploads" ->
               coll[v].status \notin {"published", "scheduled", "deleted"}
               /\ coll[v].ageDays > olderThanDays
          [] type = "admin-deleted" -> coll[v].status = "deleted"
          [] type = "low-engagement" ->
               coll[v].status = "published" /\ coll[v].views < viewThreshold
      match == {v \in DOMAIN coll :
                  HasName(coll[v].filename) /\ ~coll[v].cleanedUp /\ typeMatch(v)}
  IN Limit(SortCreatedAsc(match), limit)

\* DatabaseService.getVideosByOwner (no status filter is given)
getVideosByOwner(coll, owner, includeCleaned, limit) ==
  LET match == {v \in DOMAIN coll :
                  coll[v].owner = owner /\ (includeCleaned \/ ~coll[v].cleanedUp)}
      sorted == SortCreatedAsc(match)
  IN IF limit > 0 THEN Limit(sorted, limit) ELSE sorted

\* the filename conditions getVideosByCriteria puts in the query
StorageQuery(f, storageType) ==
  CASE storageType = "ipfs" -> StartsWithIpfs(f)
    [] storageType = "s3" ->
         HasName(f) /\ f # FnNull /\ ~StartsWithIpfs(f)
         /\ (f.path[Len(f.path)] \in ExtSegments \/ Len(f.path) > 1)
         /\ ~(Len(f.path) = 1 /\ f.path[1] \in Hex32Segments)
    [] storageType = "unknown" ->
         ~HasName(f) \/ f = FnNull
         \/ (~StartsWithIpfs(f) /\ Len(f.path) = 1 /\ f.path[1] \in Hex32Segments)
    [] OTHER -> TRUE

\* DatabaseService.getVideosByCriteria: criteria is [bannedUsers, status,
\* storageType, ageThresholdDays]; every other key of the criteria object (excludeCleaned, type,
\* olderThanDays, viewThreshold, username, limit) is never read;
\* ageThresholdDays 0 is "not given"
getVideosByCriteria(coll, criteria, limit) ==
  LET match == {v \in DOMAIN coll :
                  /\ (criteria.bannedUsers => coll[v].owner \in getBannedUsers)
                  /\ (criteria.status # {} => coll[v].status \in criteria.status)
                  /\ (criteria.ageThresholdDays # 0 =>
                        coll[v].ageDays > criteria.ageThresholdDays)
                  /\ StorageQuery(coll[v].filename, criteria.storageType)}
      result == Limit(SortCreatedDesc(match), limit)
  IN IF criteria.storageType # Absent
       THEN Filter(result, {v \in DOMAIN coll :
                              getVideoStorageType(coll[v]) = criteria.storageType})
       ELSE result

\* the criteria object with nothing set
NoCriteria ==
  [bannedUsers |-> FALSE, status |-> {}, storageType |-> Absent, ageThresholdDays |-> 0]

\* DatabaseService.markVideoAsCleanedUp
markVideoAsCleanedUp(coll, v, storageType, originalStatus) ==
  LET wasAlreadyDeleted == coll[v].status = "deleted"
  IN [coll EXCEPT ![v].status = "deleted", ![v].cleanedUp = TRUE,
                  ![v].cleanupStorageType = storageType,
                  ![v].originalStatus = originalStatus,
                  ![v].wasManuallyDeleted = wasAlreadyDeleted]

\* the write stores 'failed', another value of the parameter's type, whatever
\* the caller passes
updateVideoStatusWritesFailed(coll, v, status) == [coll EXCEPT ![v].status = "failed"]

\* DatabaseService.updateVideoStatus
updateVideoStatus(coll, v, status) == [coll EXCEPT ![v].status = status]

\* DatabaseService.getVideoById: the current document
getVideoById(coll, v) == coll[v]

(* ------------------------ commands and options ------------------------ *)
CleanupTypes == {"banned-users", "stuck-uploads", "admin-deleted", "low-engagement"}
\* cleanup.ts is "cleanup"; the cleanupCommandInternal of the progress-aware
\* cleanup command is "cleanup2"
Commands ==
  {"cleanup", "cleanup2", "nuke-account", "purge-failed", "purge-banned",
   "ipfs-diet", "purge-s3", "reconcile-s3"}

\* options.dryRun: not given, true (--dry-run) or false (--no-dry-run)
DryRunOptions == {"absent", "true", "false"}
\* options.batchSize: 0 is "not given"
BatchSizeOptions == {0, 1}

\* what one invocation is given: the command, the cleanup type its flags
\* select (--banned-users, --status deleted, --max-views, none), --dry-run,
\* confirm (false is --no-confirm) and --batch-size
Policies ==
  {p \in [cmd : Commands, ctype : CleanupTypes \cup {Absent},
          dryRun : DryRunOptions, confirm : BOOLEAN, batchSize : BatchSizeOptions] :
     /\ (p.cmd = "cleanup") => p.ctype # Absent
     /\ (p.cmd = "cleanup2") => p.ctype \in {"admin-deleted", "stuck-uploads"}
     /\ (p.cmd \notin {"cleanup", "cleanup2"}) => p.ctype = Absent}

\* the BatchProcessor of utils/batch-processor.ts driven directly over the
\* catalog's ids, with options.batchSize 1 or 2
LibraryPolicies ==
  [cmd : {"BatchProcessor"}, ctype : {Absent}, dryRun : {"absent"},
   confirm : {TRUE}, batchSize : {1, 2}]

\* the storage diet of commands/storage-diet.ts (the s3-diet command of
\* index.ts), as storageDietCommand(options) takes its options
DietPolicies ==
  [cmd : {"storage-diet"}, ctype : {Absent},
   dryRun : DryRunOptions, confirm : BOOLEAN, batchSize : BatchSizeOptions]

\* slim-user --username <OtherOwner>
SlimPolicies ==
  [cmd : {"slim-user"}, ctype : {Absent},
   dryRun : DryRunOptions, confirm : BOOLEAN, batchSize : BatchSizeOptions]

\* purge-failed and purge-abandoned from the command line, over catalogs that
\* also hold abandoned manual publishes
PurgePolicies ==
  [cmd : {"purge-failed", "purge-abandoned"}, ctype : {Absent},
   dryRun : DryRunOptions, confirm : BOOLEAN, batchSize : BatchSizeOptions]

\* IpfsService.unpinHash and S3Service.deleteObject called directly
AdapterPolicies ==
  [cmd : {"IpfsService", "S3Service"}, ctype : {Absent}, dryRun : {"absent"},
   confirm : {TRUE}, batchSize : {0}]

\* config.safety.maxBatchSize: parseInt(process.env.MAX_BATCH_SIZE || '100')
MaxBatchSizeDefault == 100
NukeDefaultBatch == 25
NukeBatchCap == 500
PurgeFailedDefaultBatch == 100
PurgeFailedBatchCap == 200
PurgeFailedDefaultLimit == 10000
StorageDietDefaultBatch == 25
SlimUserDefaultBatch == 25
SlimUserBatchCap == 200
SlimUserDefaultMonths == 6
DaysPerMonth == 30
PurgeAbandonedDefaultBatch == 25
PurgeAbandonedBatchCap == 200
PurgeAbandonedDefaultLimit == 50
PurgeAbandonedDefaultDays == 7
PurgeBannedDefaultLimit == 100
PurgeBannedLimitCap == 500
PurgeBannedDefaultBatch == 50
PurgeBannedBatchCap == 200
IpfsDietDefaultBatch == 25
PurgeS3DefaultBatch == 100
PurgeS3SampleSize == 20
ReconcileLimit == 10000
Cleanup2BatchCap == 50

\* the batch size of the command's loop (reconcile-s3 takes options.batchSize
\* as the command line gives it: undefined, here 0, or the digits typed)
BatchSizeOf(p) ==
  LET given == p.batchSize > 0
  IN CASE p.cmd = "cleanup" -> IF given THEN p.batchSize ELSE MaxBatchSizeDefault
       [] p.cmd = "cleanup2" ->
            IF given THEN p.batchSize ELSE Min(MaxBatchSizeDefault, Cleanup2BatchCap)
       [] p.cmd = "nuke-account" ->
            Min(IF given THEN p.batchSize ELSE NukeDefaultBatch, NukeBatchCap)
       [] p.cmd = "purge-failed" ->
            Min(IF given THEN p.batchSize ELSE PurgeFailedDefaultBatch, PurgeFailedBatchCap)
       [] p.cmd = "purge-abandoned" ->
            Min(IF given THEN p.batchSize ELSE PurgeAbandonedDefaultBatch,
                PurgeAbandonedBatchCap)
       [] p.cmd = "storage-diet" ->
            IF given THEN p.batchSize ELSE StorageDietDefaultBatch
       [] p.cmd = "slim-user" ->
            Min(IF given THEN p.batchSize ELSE SlimUserDefaultBatch, SlimUserBatchCap)
       [] p.cmd = "purge-banned" ->
            Min(IF given THEN p.batchSize ELSE PurgeBannedDefaultBatch, PurgeBannedBatchCap)
       [] p.cmd = "ipfs-diet" -> IF given THEN p.batchSize ELSE IpfsDietDefaultBatch
       [] p.cmd = "purge-s3" -> IF given THEN p.batchSize ELSE PurgeS3DefaultBatch
       [] p.cmd = "reconcile-s3" -> p.batchSize

\* "isDryRun = options.dryRun === true": a preview only when asked for
IsDryRunWhenAsked(p) == p.dryRun = "true"

\* const isDryRun = ... of each command
IsDryRun(p) ==
  IF p.cmd \in {"purge-failed", "purge-abandoned", "purge-banned", "ipfs-diet",
                "storage-diet"}
    THEN p.dryRun # "false"
    ELSE p.dryRun = "true"

\* the candidates a command selects
SelectCandidates(coll, p) ==
  LET cleanupLimit == IF p.batchSize > 0 THEN p.batchSize ELSE DefaultCleanupLimit
  IN CASE p.cmd = "cleanup" ->
            getVideosForCleanup(coll, p.ctype, cleanupLimit, DefaultOlderThanDays,
              DefaultViewThreshold)
       [] p.cmd = "cleanup2" ->
            IF p.ctype = "admin-deleted"
              THEN getVideosByCriteria(coll,
                     [NoCriteria EXCEPT !.status = {"deleted"}], cleanupLimit)
              ELSE getVideosForCleanup(coll, p.ctype, cleanupLimit,
                     DefaultOlderThanDays, DefaultViewThreshold)
       [] p.cmd = "nuke-account" -> getVideosByOwner(coll, BannedOwner, FALSE, 0)
       [] p.cmd = "purge-failed" ->
            getVideosByCriteria(coll,
              [NoCriteria EXCEPT !.status =
                 {"encoding_failed", "failed", "ipfs_pinning_failed"}],
              PurgeFailedDefaultLimit)
       [] p.cmd = "purge-abandoned" ->
            getVideosByCriteria(coll,
              [NoCriteria EXCEPT !.status = {"publish_manual"},
                                 !.ageThresholdDays = PurgeAbandonedDefaultDays],
              IF p.batchSize > 0 THEN p.batchSize ELSE PurgeAbandonedDefaultLimit)
       [] p.cmd = "purge-banned" ->
            getVideosForCleanup(coll, "banned-users",
              Min(PurgeBannedDefaultLimit, PurgeBannedLimitCap),
              DefaultOlderThanDays, DefaultViewThreshold)
       [] p.cmd = "ipfs-diet" ->
            getVideosByCriteria(coll, [NoCriteria EXCEPT !.storageType = "ipfs"],
              DefaultCriteriaLimit)
       [] p.cmd = "slim-user" ->
            Filter(getVideosByOwner(coll, OtherOwner, FALSE, 0),
                   {v \in DOMAIN coll :
                      /\ coll[v].ageDays > SlimUserDefaultMonths * DaysPerMonth
                      /\ getVideoStorageType(coll[v]) = "s3"})
       [] p.cmd \in {"purge-s3", "storage-diet"} ->
            getVideosByCriteria(coll, [NoCriteria EXCEPT !.storageType = "s3"],
              DefaultCriteriaLimit)
       [] p.cmd = "reconcile-s3" ->
            Filter(getVideosByCriteria(coll,
                     [NoCriteria EXCEPT !.storageType = "s3"], ReconcileLimit),
                   {v \in DOMAIN coll : getVideoStorageType(coll[v]) = "s3"})

\* the DatabaseService method a command selects its candidates with
selectorOf(p) ==
  CASE p.cmd \in {"cleanup", "purge-banned"} -> "getVideosForCleanup"
    [] p.cmd = "cleanup2" -> IF p.ctype = "admin-deleted" THEN "getVideosByCriteria"
                             ELSE "getVideosForCleanup"
    [] p.cmd = "nuke-account" -> "getVideosByOwner"
    [] OTHER -> "getVideosByCriteria"

\* .maxTimeMS(30000) of getVideosByCriteria's find()
CriteriaMaxTimeMS == 30000

\* the server-side time limit of the method's find(): the cursor's maxTimeMS,
\* 0 when the cursor is given none
maxTimeMS(selector) ==
  IF selector = "getVideosByCriteria" THEN CriteriaMaxTimeMS ELSE 0

(* ------------------------------- state -------------------------------- *)
VARIABLES
  videos,   \* the 'videos' collection: _id -> document
  cfg,      \* config.safety
  policy,   \* the command line both runs are given
  run,      \* per run: where the command is and what it has done so far
  bp,       \* the BatchProcessor: its progress, flags and loop position
  store     \* the backends an adapter method is called on, and its last call

vars == <<videos, cfg, policy, run, bp, store>>

MutatingMethods == {"unpinHash", "deleteObject", "batchDelete", "deleteObjectsWithPrefix"}
ReadOnlyMethods == {"objectExists", "listObjects", "getServiceInfo"}

\* what a backend does with the requests of one item: it serves them ("ok") or
\* answers them with an error, which the adapter method turns into a failure
\* result ("fail") or lets through as an exception ("throws")
Backends == {"ok", "fail", "throws"}

\* IpfsService.unpinHash: true when the hash is unpinned or was not pinned;
\* every error is caught and answered with false
unpinHash(backend) == backend = "ok"
\* S3Service.deleteObject, and batchDelete key by key: true when the key is
\* deleted or does not exist; every error is caught and answered with false
deleteObject(backend) == backend = "ok"
\* S3Service.objectExists and listObjects: an error that is not a 404 is rethrown
objectExistsThrows(backend) == backend # "ok"
\* S3Service.deleteObjectsWithPrefix -> {deleted, errors}: errors are counted
\* in the result; an error outside the counted deletions reaches the caller
deleteObjectsWithPrefixThrows(backend) == backend = "throws"

\* the call of method m ends in an exception
Throws(m, backend) ==
  CASE m \in {"objectExists", "listObjects"} -> objectExistsThrows(backend)
    [] m = "deleteObjectsWithPrefix" -> deleteObjectsWithPrefixThrows(backend)
    [] OTHER -> FALSE

\* the call of method m does not do its work
Fails(m, backend) ==
  CASE m = "unpinHash" -> ~unpinHash(backend)
    [] m \in {"deleteObject", "batchDelete"} -> ~deleteObject(backend)
    [] OTHER -> backend # "ok"

\* one invocation of a backend adapter method on a locator, made for video v
\* (v = 0: made for no video in particular)
Call(m, loc, v) == [m |-> m, loc |-> loc, v |-> v]

\* of the calls cs made one after the other, the last one that is made: the
\* first that throws
LastMade(cs, backend) ==
  LET throwers == {k \in 1..Len(cs) : Throws(cs[k].m, backend)}
  IN IF throwers = {} THEN Len(cs)
     ELSE CHOOSE k \in throwers : \A j \in throwers : k <= j

\* sum of a list of numbers
RECURSIVE Sum(_)
Sum(seq) == IF seq = <<>> THEN 0 ELSE Head(seq) + Sum(Tail(seq))

\* what logPreviewSummary is given: totalVideos, totalSizeGB (here in the unit
\* of video.size) and storageBreakdown, each entry of which is logged as
\* "<type>: <count> videos"
NoReport ==
  [made |-> FALSE, totalVideos |-> 0, totalSize |-> 0, hasBreakdown |-> FALSE,
   ipfs |-> 0, s3 |-> 0, other |-> 0]

\* cleanup (part_011) dry run: analysis = {ipfsHashes, s3Keys, totalSize} over
\* filteredVideos, then logPreviewSummary
cleanupPreviewSummary(coll, cand) ==
  LET kind(k) == getVideoStorageType(coll[cand[k]])
      hashes(k) == IF kind(k) = "ipfs"
                        /\ extractHashFromFilename(coll[cand[k]].filename) # Absent
                     THEN 1 ELSE 0
      keys(k) == IF kind(k) = "s3"
                   THEN Len(getS3Paths(coll[cand[k]]).files)
                        + Len(getS3Paths(coll[cand[k]]).prefixes)
                   ELSE 0
      ipfsHashes == Sum([k \in 1..Len(cand) |-> hashes(k)])
      s3Keys == Sum([k \in 1..Len(cand) |-> keys(k)])
  IN [made |-> TRUE, totalVideos |-> Len(cand),
      totalSize |-> Sum([k \in 1..Len(cand) |-> coll[cand[k]].size]),
      hasBreakdown |-> TRUE, ipfs |-> ipfsHashes, s3 |-> s3Keys,
      other |-> Len(cand) - ipfsHashes - s3Keys]

\* ipfs-diet dry run: analysis = {videosToUnpin, estimatedSavings, ...} over
\* the videos with a hash, then logPreviewSummary without a breakdown
ipfsDietPreviewSummary(coll, cand) ==
  LET withHash == [k \in 1..Len(cand) |->
                     extractHashFromFilename(coll[cand[k]].filename) # Absent]
  IN [NoReport EXCEPT
        !.made = TRUE,
        !.totalVideos = Sum([k \in 1..Len(cand) |-> IF withHash[k] THEN 1 ELSE 0]),
        !.totalSize = Sum([k \in 1..Len(cand) |->
                             IF withHash[k] THEN coll[cand[k]].size ELSE 0])]

\* the adapter methods that send a removal to a backend over the network
RetriableMethods == {"unpinHash", "deleteObject"}
NoRequests == [requests |-> <<>>, ok |-> TRUE]

\* the requests one call of unpinHash or deleteObject sends and its answer:
\* the check (isPinned: GET pin/ls; objectExists: HeadObject), then the
\* removal (POST pin/rm; DeleteObject). The first request that is answered
\* with an error throws into the method's catch block, which logs it and
\* returns false: nothing is sent a second time.
adapterRequests(m, backend) ==
  LET check == IF m = "unpinHash" THEN "pin/ls" ELSE "HeadObject"
      removal == IF m = "unpinHash" THEN "pin/rm" ELSE "DeleteObject"
  IN IF backend = "ok" THEN [requests |-> <<check, removal>>, ok |-> TRUE]
     ELSE [requests |-> <<check>>, ok |-> FALSE]

\* the latest call of each method among the calls made
noteRequests(rn, made, backend) ==
  [rn EXCEPT !.lastCall =
     [m \in RetriableMethods |->
        IF \E c \in made : c.m = m THEN adapterRequests(m, backend) ELSE @[m]]]

\* the hashes an IPFS node may have pinned and the keys a bucket may hold
Hashes == {"QmA", "QmB"}
Keys == {<<"vid.mp4">>, <<"up", "vid.mp4">>}

\* no adapter method has been called
NoCall == [m |-> "none", arg |-> <<>>, check |-> "none", requests |-> <<>>,
           result |-> FALSE]
EmptyStore == [pinned |-> {}, objects |-> {}, call |-> NoCall]
Stores == [pinned : SUBSET Hashes, objects : SUBSET Keys, call : {NoCall}]

\* IpfsService.isPinned: GET pin/ls answers with the pinned keys, with the
\* 500 "not pinned" that is turned into false, or with an error that is
\* rethrown
isPinned(st, hash, nodeUp) ==
  IF ~nodeUp THEN "throws" ELSE IF hash \in st.pinned THEN "yes" ELSE "no"

\* unpinHash without its check: POST pin/rm whatever the pin status, which the
\* node answers with an error for a hash that is not pinned
unpinHashUnchecked(st, hash, nodeUp, removalOk) ==
  LET removed == nodeUp /\ removalOk /\ hash \in st.pinned
  IN [st EXCEPT !.pinned = IF removed THEN @ \ {hash} ELSE @,
                !.call = [m |-> "unpinHash", arg |-> <<hash>>,
                          check |-> IF hash \in st.pinned THEN "yes" ELSE "no",
                          requests |-> <<"pin/rm">>, result |-> removed]]

\* IpfsService.unpinHash: isPinned, "if (!isPinned) return true", POST pin/rm,
\* true on status 200; the catch block answers every error with false
unpinHashCall(st, hash, nodeUp, removalOk) ==
  LET check == isPinned(st, hash, nodeUp)
      call == [m |-> "unpinHash", arg |-> <<hash>>, check |-> check,
               requests |-> <<"pin/ls">>, result |-> FALSE]
  IN IF check = "throws" THEN [st EXCEPT !.call = call]
     ELSE IF check = "no" THEN [st EXCEPT !.call = [call EXCEPT !.result = TRUE]]
     ELSE [st EXCEPT !.pinned = IF removalOk THEN @ \ {hash} ELSE @,
                     !.call = [call EXCEPT !.requests = <<"pin/ls", "pin/rm">>,
                                           !.result = removalOk]]

\* S3Service.objectExists: HeadObject answers, with a 404 that is turned into
\* false, or with an error that is rethrown
objectExists(st, key, bucketUp) ==
  IF ~bucketUp THEN "throws" ELSE IF key \in st.objects THEN "yes" ELSE "no"

\* deleteObject without its check: DeleteObject is sent for every key
deleteObjectUnchecked(st, key, bucketUp, removalOk) ==
  LET removed == bucketUp /\ removalOk
  IN [st EXCEPT !.objects = IF removed THEN @ \ {key} ELSE @,
                !.call = [m |-> "deleteObject", arg |-> key,
                          check |-> IF key \in st.objects THEN "yes" ELSE "no",
                          requests |-> <<"DeleteObject">>, result |-> removed]]

\* S3Service.deleteObject: objectExists, "if (!exists) return true",
\* DeleteObject, true on status 204 or 200; the catch block answers every
\* error with false
deleteObjectCall(st, key, bucketUp, removalOk) ==
  LET check == objectExists(st, key, bucketUp)
      call == [m |-> "deleteObject", arg |-> key, check |-> check,
               requests |-> <<"HeadObject">>, result |-> FALSE]
  IN IF check = "throws" THEN [st EXCEPT !.call = call]
     ELSE IF check = "no" THEN [st EXCEPT !.call = [call EXCEPT !.result = TRUE]]
     ELSE [st EXCEPT !.objects = IF removalOk THEN @ \ {key} ELSE @,
                     !.call = [call EXCEPT !.requests = <<"HeadObject", "DeleteObject">>,
                                           !.result = removalOk]]

IdleRun(coll) ==
  [phase |-> "idle", report |-> NoReport, mode |-> "none", cand |-> <<>>, snap |-> coll, i |-> 1,
   bs |-> 1, unparsedBatchSize |-> FALSE, pc |-> "item",
   calls |-> {}, marks |-> {}, marked |-> {}, writes |-> {},
   errors |-> [v \in VideoIds |-> 0], failed |-> {}, skippedDup |-> {},
   skippedAlreadyClean |-> {},
   processedS3Files |-> {}, processedS3Prefixes |-> {}, processedIpfsHashes |-> {},
   processed |-> 0, totalStorageFreed |-> 0,
   opStatus |-> "none", request |-> "none", requestedAt |-> 0,
   lastCall |-> [m \in RetriableMethods |-> NoRequests], queryMaxTimeMS |-> 0,
   events |-> 0, batchUpdates |-> FALSE, completesInPreview |-> FALSE, terminal |-> <<>>,
   published |-> <<>>]

\* the constructor's "maxRetries: 3" and the "|| 3" of processBatchWithRetry
DefaultMaxRetries == 3

\* no BatchProcessor has been constructed
NoBatchProcessor ==
  [pc |-> "none", status |-> "none", totalItems |-> 0, batchSize |-> 1,
   maxRetries |-> 0, i |-> 0, retry |-> 0, currentBatch |-> 0, totalBatches |-> 0,
   processedItems |-> 0, errors |-> 0, attempted |-> {},
   isPaused |-> FALSE, isCancelled |-> FALSE,
   delayBetweenBatches |-> 0, paced |-> FALSE, reports |-> 0, backoff |-> 0]

TypeOK ==
  /\ DOMAIN videos = VideoIds
  /\ cfg \in [requireConfirmation : BOOLEAN]
  /\ policy \in Policies \cup LibraryPolicies \cup AdapterPolicies \cup PurgePolicies
                \cup DietPolicies \cup SlimPolicies
  /\ DOMAIN run = Runs
  /\ \A r \in Runs :
       /\ run[r].phase \in {"idle", "running", "sleeping", "summary", "done", "failed"}
       /\ run[r].mode \in {"none", "preview", "refused", "exec"}
       /\ run[r].i \in 1..(Len(run[r].cand) + 1)
       /\ run[r].marked \subseteq run[r].marks
       /\ run[r].opStatus \in {"none", "running", "completed", "error"}
       /\ run[r].request \in {"none", "pause", "resume", "cancel"}
  /\ bp.pc \in {"none", "head", "attempt", "returned"}
  /\ bp.status \in {"none", "running", "paused", "completed", "error", "cancelled"}
  /\ bp.retry \in 0..DefaultMaxRetries
  /\ bp.processedItems \in 0..bp.totalItems
  /\ bp.attempted \subseteq 1..bp.totalBatches

\* config.safety.requireConfirmation is REQUIRE_CONFIRMATION === 'true' of the
\* environment: either value is a configuration the program runs under
Init ==
  /\ \E c \in Catalogs : videos = [v \in VideoIds |-> NewVideo(c[v])]
  /\ cfg \in [requireConfirmation : BOOLEAN]
  /\ policy \in Policies \cup LibraryPolicies \cup AdapterPolicies
  /\ run = [r \in Runs |-> IdleRun(videos)]
  /\ bp = NoBatchProcessor
  /\ store \in (IF policy \in AdapterPolicies THEN Stores ELSE {EmptyStore})

\* "for (const filePath of s3Paths.files) if (await objectExists(filePath))
\* { videoExists = true; break; }": the keys asked for; when one exists it is
\* taken to be the first
ExistenceChecks(video, v, exists) ==
  LET files == getS3Paths(video).files
      asked == IF exists THEN Min(1, Len(files)) ELSE Len(files)
  IN [k \in 1..asked |-> Call("objectExists", files[k], v)]

\* purge-s3 dry run: the analysis of a sample of the candidates, each in its
\* own try block
purgeS3Preview(rn, exists, backend) ==
  LET sample == Limit(rn.cand, PurgeS3SampleSize)
      checked == {v \in Range(sample) : rn.snap[v].status # "deleted"}
      asked(v) == ExistenceChecks(rn.snap[v], v, exists)
  IN [rn EXCEPT !.calls = UNION {{asked(v)[k] : k \in 1..LastMade(asked(v), backend)} :
                                   v \in checked},
                !.phase = "done", !.mode = "preview"]

\* reconcile-s3 before its loop: the connectivity test, the dry-run notice and
\* the prompt, which is asked whenever the run is no dry run: the command
\* reads options.noConfirm, and --no-confirm sets options.confirm. Without
\* --batch-size the loop "for (i = 0; i < n; i += undefined)" takes the empty
\* slice(0, NaN) as its one batch and ends.
reconcileS3Start(rn, p, s3Up, answerYes) ==
  LET probe == {Call("getServiceInfo", <<>>, 0)}
             \cup (IF s3Up THEN {Call("listObjects", <<"">>, 0)} ELSE {})
      tested == [rn EXCEPT !.calls = probe, !.unparsedBatchSize = TRUE]
      loop == IF p.batchSize = 0 THEN "summary" ELSE "running"
  IN IF ~s3Up THEN [tested EXCEPT !.phase = "done"]
     ELSE IF p.dryRun = "true" THEN [tested EXCEPT !.phase = loop, !.mode = "preview"]
     ELSE IF ~answerYes THEN [tested EXCEPT !.phase = "done", !.mode = "refused"]
     ELSE [tested EXCEPT !.phase = loop, !.mode = "exec"]

\* a command from its start to the first item of its loop: select, preview or
\* refuse or go on
startCommand(coll, conf, p, queryOk, exists, s3Up, answerYes) ==
  LET cand == SelectCandidates(coll, p)
      rn == [IdleRun(coll) EXCEPT !.cand = cand, !.bs = BatchSizeOf(p),
                                  !.batchUpdates =
                                    p.cmd \in {"cleanup2", "ipfs-diet", "purge-abandoned"},
                                  !.queryMaxTimeMS = maxTimeMS(selectorOf(p))]
  IN IF ~queryOk THEN [rn EXCEPT !.cand = <<>>, !.phase = "failed"]
     ELSE IF cand = <<>> THEN [rn EXCEPT !.phase = "done"]
     ELSE IF p.cmd = "reconcile-s3" THEN reconcileS3Start(rn, p, s3Up, answerYes)
     ELSE IF IsDryRun(p)
       THEN IF p.cmd = "purge-s3"
              THEN purgeS3Preview(rn, exists, IF s3Up THEN "ok" ELSE "fail")
            ELSE [rn EXCEPT !.phase = "done", !.mode = "preview",
                            !.completesInPreview =
                              p.cmd \in {"cleanup2", "ipfs-diet", "purge-abandoned"},
                            !.report =
                              CASE p.cmd = "cleanup2" -> cleanupPreviewSummary(coll, cand)
                                [] p.cmd = "ipfs-diet" -> ipfsDietPreviewSummary(coll, cand)
                                [] OTHER -> NoReport]
     ELSE IF conf.requireConfirmation /\ p.confirm
       THEN [rn EXCEPT !.phase = "done", !.mode = "refused"]
     ELSE [rn EXCEPT !.phase = "running", !.mode = "exec"]

\* run r is invoked
StartRun(r) ==
  /\ policy.cmd \in Commands \cup {"purge-abandoned", "storage-diet", "slim-user"}
  /\ run[r].phase = "idle"
  /\ \E queryOk, exists, s3Up, answerYes \in BOOLEAN :
       run' = [run EXCEPT ![r] =
                 startCommand(videos, cfg, policy, queryOk, exists, s3Up, answerYes)]
  /\ UNCHANGED <<videos, cfg, policy, bp, store>>

(* --------------------------- item handlers ---------------------------- *)
\* what the environment decides for one item: backend is what the backends do
\* with the adapter calls made for it, db whether its catalog writes go
\* through ("late": the first write goes through and the second throws),
\* exists what objectExists answers
Outcomes(backends, dbs, answers) == [backend : backends, db : dbs, exists : answers]
OneWrite == {"ok", "fail"}
TwoWrites == {"ok", "fail", "late"}

ItemVideo(rn) == rn.cand[rn.i]

\* "i += options.batchSize" with the digit d of an unparsed --batch-size:
\* i is 0, "0d", "0dd", ..., read as a number where it is compared or sliced
UnparsedBatchStart(d, k) == d * ((10 ^ k - 1) \div 9)

\* the item at rn.i is the last of its batch
IsBatchEnd(rn) ==
  IF rn.unparsedBatchSize
    THEN \E k \in 1..rn.i : rn.i = UnparsedBatchStart(rn.bs, k)
    ELSE rn.i % rn.bs = 0

\* UnifiedLogger.updateProgress: with a progressManager and an operationId
\* (and after initProgress) the progress is handed to
\* progressManager.updateProgress, which broadcasts a 'progress' event
updateProgress(rn) ==
  IF rn.opStatus = "none" THEN rn
  ELSE [rn EXCEPT !.events = @ + 1, !.published = Append(@, rn.processed)]

\* the loops "for (i = 0; i < n; i += batchSize) { for video of batch {...}
\* if (i + batchSize < n) sleep }": where the run is after the item at rn.i;
\* the cleanup of part_011, ipfs-diet and purge-abandoned call
\* uLog.updateProgress once more at the end of every batch, with
\* processedSoFar = Math.min(i + batchSize, n), the position of the batch's
\* last item; published is the processedItems of the events, in their order
Advance(rn) ==
  [rn EXCEPT !.i = rn.i + 1, !.pc = "item",
             !.events = IF rn.batchUpdates /\ rn.opStatus # "none"
                             /\ (IsBatchEnd(rn) \/ rn.i >= Len(rn.cand))
                          THEN @ + 1 ELSE @,
             !.published = IF rn.batchUpdates /\ rn.opStatus # "none"
                                /\ (IsBatchEnd(rn) \/ rn.i >= Len(rn.cand))
                             THEN Append(@, rn.i) ELSE @,
             !.phase = IF rn.i >= Len(rn.cand) THEN "summary"
                       ELSE IF IsBatchEnd(rn) THEN "sleeping"
                       ELSE "running"]

\* the state of a try block: the run, the collection, whether it has thrown
Try(rn, coll) == [run |-> rn, coll |-> coll, threw |-> FALSE]

\* the adapter calls cs are made for video v one after the other, up to the
\* first that throws
callAdapters(t, v, cs, backend) ==
  LET made == {cs[k] : k \in 1..LastMade(cs, backend)}
  IN IF t.threw THEN t
     ELSE [t EXCEPT !.run = noteRequests(@, made, backend),
                    !.run.calls = @ \cup made,
                    !.run.failed = IF \E c \in made : Fails(c.m, backend)
                                     THEN @ \cup {v} ELSE @,
                    !.threw = \E c \in made : Throws(c.m, backend)]

\* results.errors.push(...)
pushError(rn, v) == [rn EXCEPT !.errors[v] = @ + 1]

\* await db.markVideoAsCleanedUp(video._id, {..., storageType, originalStatus:
\* video.status}) inside a try block
awaitMark(t, v, storageType, dbOk) ==
  IF t.threw THEN t
  ELSE IF dbOk
    THEN [t EXCEPT !.run.marks = @ \cup {v}, !.run.marked = @ \cup {v},
                   !.coll = markVideoAsCleanedUp(t.coll, v, storageType,
                                                 t.run.snap[v].status)]
  ELSE [t EXCEPT !.run.marks = @ \cup {v}, !.threw = TRUE]

\* results.totalStorageFreed += video.size || 0 (nuke-account:
\* totalStorageBytes) inside a try block
addStorageFreed(t, v) ==
  IF t.threw THEN t ELSE [t EXCEPT !.run.totalStorageFreed = @ + t.run.snap[v].size]

\* the loop without the item's catch block: what an item throws reaches the
\* command's outer catch and ends the command
finishItemRethrow(t, v, catchCounts) ==
  IF t.threw THEN [run |-> [t.run EXCEPT !.phase = "failed"], coll |-> t.coll]
  ELSE [run |-> Advance(updateProgress(t.run)), coll |-> t.coll]

\* the item's catch block (push the error; in some commands also
\* results.processed++), after which the loop goes on with the next item
finishItem(t, v, catchCounts) ==
  IF t.threw
    THEN [run |-> Advance(updateProgress([pushError(t.run, v) EXCEPT
                             !.processed = IF catchCounts THEN @ + 1 ELSE @])),
          coll |-> t.coll]
    ELSE [run |-> Advance(updateProgress(t.run)), coll |-> t.coll]

\* the calls that remove an S3 video's objects: the files, then the prefixes
S3DeleteCalls(video, v, fileMethod) ==
  LET paths == getS3Paths(video)
  IN [k \in 1..Len(paths.files) |-> Call(fileMethod, paths.files[k], v)]
     \o [k \in 1..Len(paths.prefixes) |->
           Call("deleteObjectsWithPrefix", paths.prefixes[k], v)]

UnpinCalls(video, v) ==
  LET hash == extractHashFromFilename(video.filename)
  IN IF hash # Absent THEN <<Call("unpinHash", <<hash>>, v)>> ELSE <<>>

\* cleanup.ts, the body of the item's try block
cleanupTry(rn, coll, o) ==
  LET v == ItemVideo(rn)
      video == rn.snap[v]
      storageType == getVideoStorageType(video)
      cs == IF storageType = "ipfs" THEN UnpinCalls(video, v)
            ELSE IF storageType = "s3" THEN S3DeleteCalls(video, v, "deleteObject")
            ELSE <<>>
      t1 == callAdapters(Try(rn, coll), v, cs, o.backend)
      t2 == IF storageType = "ipfs" /\ cs # <<>> /\ ~unpinHash(o.backend)
              THEN [t1 EXCEPT !.run = pushError(t1.run, v)] ELSE t1
      t3 == addStorageFreed(awaitMark(t2, v, storageType, o.db = "ok"), v)
  IN IF t3.threw THEN t3 ELSE [t3 EXCEPT !.run.processed = @ + 1]

cleanupItem(rn, coll, o) == finishItem(cleanupTry(rn, coll, o), ItemVideo(rn), FALSE)

\* processVideoCleanup and the try block around it
cleanup2Try(rn, coll, o) ==
  LET v == ItemVideo(rn)
      video == rn.snap[v]
      storageType == getVideoStorageType(video)
      cs == IF storageType = "ipfs" THEN UnpinCalls(video, v)
            ELSE IF storageType = "s3" THEN S3DeleteCalls(video, v, "batchDelete")
            ELSE <<>>
      t1 == callAdapters(Try(rn, coll), v, cs, o.backend)
      t2 == IF storageType = "ipfs" /\ cs # <<>> /\ ~unpinHash(o.backend)
              THEN [t1 EXCEPT !.threw = TRUE] ELSE t1
      t3 == addStorageFreed(awaitMark(t2, v, storageType, o.db = "ok"), v)
  IN IF t3.threw THEN t3 ELSE [t3 EXCEPT !.run.processed = @ + 1]

cleanup2Item(rn, coll, o) == finishItem(cleanup2Try(rn, coll, o), ItemVideo(rn), FALSE)

\* nuke-account, the three dedup loops of the item's try block: every locator
\* of the video is looked up in the run's processed set, added to it and, when
\* new, handed to its adapter method
nukeBackend(rn, coll, o) ==
  LET v == ItemVideo(rn)
      video == rn.snap[v]
      hashes == collectIpfsHashes(video)
      locators == S3DeleteCalls(video, v, "deleteObject")
                  \o [k \in 1..Len(hashes) |-> Call("unpinHash", <<hashes[k]>>, v)]
      processedSet(m) ==
        CASE m = "deleteObject" -> rn.processedS3Files
          [] m = "deleteObjectsWithPrefix" -> rn.processedS3Prefixes
          [] OTHER -> rn.processedIpfsHashes
      isNew(k) == locators[k].loc \notin processedSet(locators[k].m)
      throwers == {k \in 1..Len(locators) : isNew(k) /\ Throws(locators[k].m, o.backend)}
      last == IF throwers = {} THEN Len(locators)
              ELSE CHOOSE k \in throwers : \A j \in throwers : k <= j
      made == {locators[k] : k \in {j \in 1..last : isNew(j)}}
      reached(m) == {locators[k].loc : k \in {j \in 1..last : locators[j].m = m}}
      seen == [rn EXCEPT
                 !.processedS3Files = @ \cup reached("deleteObject"),
                 !.processedS3Prefixes = @ \cup reached("deleteObjectsWithPrefix"),
                 !.processedIpfsHashes = @ \cup reached("unpinHash"),
                 !.skippedDup = IF \E k \in 1..last : ~isNew(k) THEN @ \cup {v} ELSE @,
                 !.calls = @ \cup made,
                 !.failed = IF \E c \in made : Fails(c.m, o.backend)
                              THEN @ \cup {v} ELSE @]
  IN [Try(noteRequests(seen, made, o.backend), coll) EXCEPT !.threw = throwers # {}]

\* the item is dropped as soon as one of its locators is a duplicate
nukeTrySkipsDuplicates(rn, coll, o) ==
  LET v == ItemVideo(rn)
      t1 == nukeBackend(rn, coll, o)
      t2 == IF v \in t1.run.skippedDup THEN t1
            ELSE awaitMark(t1, v, getVideoStorageType(rn.snap[v]), o.db = "ok")
  IN IF t2.threw THEN t2 ELSE [t2 EXCEPT !.run.processed = @ + 1]

\* nuke-account, the body of the item's try block
nukeTry(rn, coll, o) ==
  LET v == ItemVideo(rn)
      t1 == nukeBackend(rn, coll, o)
      t2 == addStorageFreed(
              awaitMark(t1, v, getVideoStorageType(rn.snap[v]), o.db = "ok"), v)
  IN IF t2.threw THEN t2 ELSE [t2 EXCEPT !.run.processed = @ + 1]

nukeItem(rn, coll, o) == finishItem(nukeTry(rn, coll, o), ItemVideo(rn), TRUE)

\* await db.updateVideoStatus(video._id, 'deleted') inside a try block
awaitStatus(t, v, dbOk) ==
  IF t.threw THEN t
  ELSE IF dbOk
    THEN [t EXCEPT !.run.writes = @ \cup {v},
                   !.coll = updateVideoStatus(t.coll, v, "deleted")]
  ELSE [t EXCEPT !.run.writes = @ \cup {v}, !.threw = TRUE]

\* purge-failed, the body of the item's try block
purgeFailedTry(rn, coll, o) ==
  LET v == ItemVideo(rn)
      video == rn.snap[v]
      storageType == getVideoStorageType(video)
      cs == IF storageType = "ipfs" THEN UnpinCalls(video, v) ELSE <<>>
      t0 == callAdapters(Try(rn, coll), v, cs, o.backend)
      t1 == IF cs # <<>> /\ unpinHash(o.backend) THEN addStorageFreed(t0, v) ELSE t0
      t2 == awaitStatus(t1, v, o.db # "fail")
      t3 == awaitMark(t2, v, storageType, o.db = "ok")
  IN IF t3.threw THEN t3 ELSE [t3 EXCEPT !.run.processed = @ + 1]

purgeFailedItem(rn, coll, o) ==
  finishItem(purgeFailedTry(rn, coll, o), ItemVideo(rn), TRUE)

\* String.prototype.includes on a path, for '/segment' at the end of the path
\* or '/segment/' inside it
includesSegment(loc, segment, closed) ==
  \E k \in 2..Len(loc) : loc[k] = segment /\ (closed => k < Len(loc))

\* "filePath.includes('/480p.m3u8') || filePath.includes('/thumbnails/')"
keepsFile(loc) ==
  includesSegment(loc, "480p.m3u8", FALSE) \/ includesSegment(loc, "thumbnails", TRUE)
\* "prefix.includes('/480p/') || prefix.includes('/thumbnails/')"
keepsPrefix(loc) ==
  includesSegment(loc, "480p", TRUE) \/ includesSegment(loc, "thumbnails", TRUE)

\* the calls of the storage diet for one video: deleteObject for the files it
\* does not keep, then deleteObjectsWithPrefix for the prefixes it does not keep
StorageDietCalls(video, v) ==
  LET paths == getS3Paths(video)
      files == {k \in 1..Len(paths.files) : ~keepsFile(paths.files[k])}
      prefixes == {k \in 1..Len(paths.prefixes) : ~keepsPrefix(paths.prefixes[k])}
  IN [k \in 1..Cardinality(files) |->
        Call("deleteObject",
             paths.files[CHOOSE j \in files :
                           Cardinality({i \in files : i < j}) = k - 1], v)]
     \o [k \in 1..Cardinality(prefixes) |->
           Call("deleteObjectsWithPrefix",
                paths.prefixes[CHOOSE j \in prefixes :
                                 Cardinality({i \in prefixes : i < j}) = k - 1], v)]

\* storage-diet, the body of the item's try block: deletedCount > 0 when a
\* deleteObject answered true; the saving is estimated as 70% of the size
storageDietTry(rn, coll, o) ==
  LET v == ItemVideo(rn)
      video == rn.snap[v]
      cs == StorageDietCalls(video, v)
      t0 == callAdapters(Try(rn, coll), v, cs, o.backend)
      deleted == \E k \in 1..Len(cs) : cs[k].m = "deleteObject" /\ deleteObject(o.backend)
      t1 == IF deleted /\ ~t0.threw
              THEN awaitMark([t0 EXCEPT !.run.totalStorageFreed =
                                          @ + (video.size * 7) \div 10],
                             v, "s3", o.db = "ok")
              ELSE t0
  IN IF t1.threw THEN t1 ELSE [t1 EXCEPT !.run.processed = @ + 1]

storageDietItem(rn, coll, o) ==
  finishItem(storageDietTry(rn, coll, o), ItemVideo(rn), FALSE)

\* the calls of slim-user for one video: deleteObject for the playlists of the
\* other resolutions, the source file and the processed file, then
\* deleteObjectsWithPrefix for the segment folders of the other resolutions
SlimUserCalls(video, v) ==
  LET paths == getS3Paths(video)
      dropsFile(loc) ==
        \/ \E name \in {"1080p.m3u8", "720p.m3u8", "360p.m3u8", "default.m3u8"} :
             includesSegment(loc, name, FALSE)
        \/ (HasName(video.originalFilename) /\ loc = video.originalFilename.path)
        \/ (HasName(video.filename) /\ loc = video.filename.path
               /\ \A k \in 1..Len(loc) : loc[k] \notin {"480p", "480p.m3u8"})
      dropsPrefix(loc) ==
        \E name \in {"1080p", "720p", "360p"} : includesSegment(loc, name, TRUE)
      files == {k \in 1..Len(paths.files) : dropsFile(paths.files[k])}
      prefixes == {k \in 1..Len(paths.prefixes) : dropsPrefix(paths.prefixes[k])}
  IN [k \in 1..Cardinality(files) |->
        Call("deleteObject",
             paths.files[CHOOSE j \in files :
                           Cardinality({i \in files : i < j}) = k - 1], v)]
     \o [k \in 1..Cardinality(prefixes) |->
           Call("deleteObjectsWithPrefix",
                paths.prefixes[CHOOSE j \in prefixes :
                                 Cardinality({i \in prefixes : i < j}) = k - 1], v)]

\* slim-user, the body of the item's try block; the saving is estimated as
\* 70% of the size
slimUserTry(rn, coll, o) ==
  LET v == ItemVideo(rn)
      video == rn.snap[v]
      t0 == callAdapters(Try(rn, coll), v, SlimUserCalls(video, v), o.backend)
      t1 == awaitMark(t0, v, "s3", o.db = "ok")
  IN IF t1.threw THEN t1
     ELSE [t1 EXCEPT !.run.processed = @ + 1,
                     !.run.totalStorageFreed = @ + (video.size * 7) \div 10]

slimUserItem(rn, coll, o) == finishItem(slimUserTry(rn, coll, o), ItemVideo(rn), TRUE)

\* purge-abandoned, the body of the item's try block
purgeAbandonedTry(rn, coll, o) ==
  LET v == ItemVideo(rn)
      video == rn.snap[v]
      storageType == getVideoStorageType(video)
      cs == IF storageType = "ipfs" THEN UnpinCalls(video, v) ELSE <<>>
      t0 == callAdapters(Try(rn, coll), v, cs, o.backend)
      t1 == IF cs # <<>> /\ unpinHash(o.backend) THEN addStorageFreed(t0, v) ELSE t0
      t2 == awaitStatus(t1, v, o.db # "fail")
      t3 == awaitMark(t2, v, storageType, o.db = "ok")
  IN IF t3.threw THEN t3 ELSE [t3 EXCEPT !.run.processed = @ + 1]

purgeAbandonedItem(rn, coll, o) ==
  finishItem(purgeAbandonedTry(rn, coll, o), ItemVideo(rn), TRUE)

\* purge-banned, the re-check that opens the item's try block
purgeBannedRecheck(rn, coll, o) ==
  LET v == ItemVideo(rn)
      currentVideo == getVideoById(coll, v)
  IN IF o.db # "ok"
       THEN finishItem([Try(rn, coll) EXCEPT !.threw = TRUE], v, TRUE)
     ELSE IF currentVideo.cleanedUp
       THEN [run |-> Advance(updateProgress(
                       [rn EXCEPT !.skippedAlreadyClean = @ \cup {v},
                                  !.processed = @ + 1])),
             coll |-> coll]
     ELSE [run |-> [rn EXCEPT !.pc = "checked"], coll |-> coll]

\* purge-banned, the rest of the item's try block
purgeBannedTry(rn, coll, o) ==
  LET v == ItemVideo(rn)
      video == rn.snap[v]
      storageType == getVideoStorageType(video)
      cs == IF storageType = "ipfs" THEN UnpinCalls(video, v) ELSE <<>>
      t0 == callAdapters(Try(rn, coll), v, cs, o.backend)
      t1 == IF (cs # <<>> /\ unpinHash(o.backend)) \/ storageType = "s3"
              THEN addStorageFreed(t0, v) ELSE t0
      t2 == awaitMark(t1, v, storageType, o.db = "ok")
  IN IF t2.threw THEN t2 ELSE [t2 EXCEPT !.run.processed = @ + 1]

purgeBannedItem(rn, coll, o) ==
  finishItem(purgeBannedTry(rn, coll, o), ItemVideo(rn), TRUE)

\* ipfs-diet, the body of the item's try block
ipfsDietTry(rn, coll, o) ==
  LET v == ItemVideo(rn)
      video == rn.snap[v]
      cs == UnpinCalls(video, v)
      t1 == callAdapters(Try(rn, coll), v, cs, o.backend)
      t2 == IF unpinHash(o.backend)
              THEN awaitMark(addStorageFreed(t1, v), v, "ipfs", o.db = "ok")
            ELSE [t1 EXCEPT !.run = pushError(t1.run, v)]
  IN IF cs = <<>> THEN Try(rn, coll)
     ELSE IF t2.threw THEN t2 ELSE [t2 EXCEPT !.run.processed = @ + 1]

\* "if (!hash) continue" leaves the iteration before its updateProgress
ipfsDietItem(rn, coll, o) ==
  IF UnpinCalls(rn.snap[ItemVideo(rn)], ItemVideo(rn)) = <<>>
    THEN [run |-> Advance(rn), coll |-> coll]
    ELSE finishItem(ipfsDietTry(rn, coll, o), ItemVideo(rn), FALSE)

\* purge-s3, the body of the item's try block
purgeS3Try(rn, coll, o) ==
  LET v == ItemVideo(rn)
      video == rn.snap[v]
      cs == ExistenceChecks(video, v, o.exists)
      t1 == callAdapters(Try(rn, coll), v, cs, o.backend)
      t2 == IF cs # <<>> /\ o.exists THEN t1
            ELSE awaitStatus(t1, v, o.db = "ok")
  IN IF video.status = "deleted" THEN [Try(rn, coll) EXCEPT !.run.processed = @ + 1]
     ELSE IF t2.threw THEN t2 ELSE [t2 EXCEPT !.run.processed = @ + 1]

purgeS3Item(rn, coll, o) == finishItem(purgeS3Try(rn, coll, o), ItemVideo(rn), TRUE)

\* the manifest names `${resolution}.m3u8` of reconcile-s3
Resolutions == <<"360p.m3u8", "480p.m3u8", "720p.m3u8", "1080p.m3u8">>

\* reconcile-s3, the manifests asked for: each objectExists is in a try block
\* of its own, so that all are asked when they throw, and the first is taken
\* to be the one that exists when one does
reconcileS3Checks(rn, o) ==
  LET v == ItemVideo(rn)
      asked == IF o.exists /\ ~objectExistsThrows(o.backend) THEN 1 ELSE Len(Resolutions)
  IN {Call("objectExists", <<rn.snap[v].permlink, Resolutions[k]>>, v) :
        k \in 1..asked}

\* the mark of a missing video is written without looking at options.dryRun
reconcileS3TryIgnoresDryRun(rn, coll, o) ==
  LET v == ItemVideo(rn)
      hasErrors == objectExistsThrows(o.backend)
      t1 == [Try(rn, coll) EXCEPT !.run.calls = @ \cup reconcileS3Checks(rn, o),
                                  !.run.failed = IF hasErrors THEN @ \cup {v} ELSE @]
  IN IF hasErrors THEN [t1 EXCEPT !.run = pushError(t1.run, v)]
     ELSE IF o.exists THEN t1
     ELSE awaitMark(t1, v, "s3", o.db = "ok")

\* reconcile-s3, the body of the item's try block (the same in a dry run,
\* where the mark is not written)
reconcileS3Try(rn, coll, o) ==
  LET v == ItemVideo(rn)
      hasErrors == objectExistsThrows(o.backend)
      t1 == [Try(rn, coll) EXCEPT !.run.calls = @ \cup reconcileS3Checks(rn, o),
                                  !.run.failed = IF hasErrors THEN @ \cup {v} ELSE @]
  IN IF hasErrors THEN [t1 EXCEPT !.run = pushError(t1.run, v)]
     ELSE IF o.exists THEN t1
     ELSE IF rn.mode = "exec" THEN awaitMark(t1, v, "s3", o.db = "ok")
     ELSE t1

reconcileS3Item(rn, coll, o) ==
  finishItem(reconcileS3Try(rn, coll, o), ItemVideo(rn), FALSE)

(* -------------------------- BatchProcessor ---------------------------- *)
\* options.maxRetries as given to the constructor: 0 is the number 0 or "not
\* given", which "this.options.maxRetries || 3" does not tell apart
MaxRetriesOptions == {0, 1}
\* options.delayBetweenBatches in milliseconds
DelayOptions == {0, 1000}

\* items.length: the processor is given the first ids of the catalog
ItemCounts == 1..NumVideos

\* this.options.maxRetries || 3
RetryLimit(b) == IF b.maxRetries = 0 THEN DefaultMaxRetries ELSE b.maxRetries

\* Math.ceil(items.length / options.batchSize)
CeilDiv(n, d) == (n + d - 1) \div d

\* new BatchProcessor(operation, items, options) and the call of
\* processBatches(items, processor) up to the loop
BPStart ==
  /\ policy.cmd = "BatchProcessor" /\ bp.pc = "none"
  /\ \E maxRetries \in MaxRetriesOptions, delay \in DelayOptions, length \in ItemCounts :
       bp' = [NoBatchProcessor EXCEPT
                !.pc = "head", !.status = "running", !.totalItems = length,
                !.batchSize = policy.batchSize, !.maxRetries = maxRetries,
                !.delayBetweenBatches = delay,
                !.totalBatches = CeilDiv(length, policy.batchSize)]
  /\ UNCHANGED <<videos, cfg, policy, run, store>>

\* this.reportProgress() in processBatches: options.onProgress is called with
\* the progress (the calls made by pause(), resume() and cancel() are not
\* counted)
reportProgress(b) == [b EXCEPT !.reports = @ + 1]

\* "while (this.isPaused)": the wait does not look at isCancelled
waitsWhilePausedOnly(b) == b.isPaused

\* "while (this.isPaused && !this.isCancelled) await this.sleep(1000)"
waitsWhilePaused(b) == b.isPaused /\ ~b.isCancelled

\* the head of the loop over the batches: wait while paused, break when
\* cancelled, else take the next batch; after the loop, set the final status
BPLoopHead ==
  /\ bp.pc = "head"
  /\ bp.i >= bp.totalItems \/ ~waitsWhilePaused(bp)
  /\ bp' = IF bp.i >= bp.totalItems
             THEN reportProgress(
                    [bp EXCEPT !.pc = "returned",
                               !.status = IF bp.isCancelled THEN @
                                          ELSE IF bp.errors > 0 THEN "error"
                                          ELSE "completed"])
           ELSE IF bp.isCancelled
             THEN reportProgress([bp EXCEPT !.pc = "returned", !.status = "cancelled"])
             ELSE [bp EXCEPT !.pc = "attempt", !.retry = 0, !.backoff = 0,
                             !.currentBatch = (bp.i \div bp.batchSize) + 1]
  /\ UNCHANGED <<videos, cfg, policy, run, store>>

\* the rest of the loop body after the batch's try block; paced: the loop
\* comes to its head from "await this.sleep(delayBetweenBatches)"
NextBatch(b) == [b EXCEPT !.i = b.i + b.batchSize, !.pc = "head"]

\* "if (i + batchSize < items.length && delayBetweenBatches > 0) await
\* this.sleep(delayBetweenBatches)" at the end of the try block
sleepBetweenBatches(b) ==
  [b EXCEPT !.paced = b.i + b.batchSize < b.totalItems /\ b.delayBetweenBatches > 0]

\* "const delay = Math.pow(2, retry) * 1000; await this.sleep(delay)"
retryDelay(retry) == (2 ^ retry) * 1000

\* every batch is taken to be full
sliceLengthFull(b) == b.batchSize

\* "const batch = items.slice(i, i + batchSize)" and its batch.length
sliceLength(b) == Min(b.batchSize, b.totalItems - b.i)

\* the catch block counts the failed batch's items as processed
batchFailedCounted(b) ==
  reportProgress([b EXCEPT !.errors = @ + 1, !.paced = FALSE,
                           !.processedItems = @ + Min(b.batchSize, b.totalItems - b.i)])

\* the catch block of the batch: "this.progress.errors.push(errorMsg);
\* this.reportProgress()"
batchFailed(b) == reportProgress([b EXCEPT !.errors = @ + 1, !.paced = FALSE])

\* one call of the processor on the current batch inside processBatchWithRetry,
\* and what follows it: the results, a retry, or the catch block of the batch
BPAttempt ==
  /\ bp.pc = "attempt"
  /\ \E processorThrows \in BOOLEAN :
       LET tried == [bp EXCEPT !.attempted = @ \cup {bp.currentBatch}]
           batchLength == sliceLength(bp)
       IN bp' = IF ~processorThrows
                  THEN NextBatch(sleepBetweenBatches(reportProgress(
                         [tried EXCEPT !.processedItems = @ + batchLength])))
                ELSE IF bp.retry < RetryLimit(bp)
                  THEN [tried EXCEPT !.retry = @ + 1, !.backoff = retryDelay(bp.retry)]
                ELSE NextBatch(batchFailed(tried))
  /\ UNCHANGED <<videos, cfg, policy, run, store>>

\* pause(), resume() and cancel(), called while processBatches is running
BPPause ==
  /\ bp.pc \in {"head", "attempt"}
  /\ bp' = [bp EXCEPT !.isPaused = TRUE, !.status = "paused"]
  /\ UNCHANGED <<videos, cfg, policy, run, store>>

BPResume ==
  /\ bp.pc \in {"head", "attempt"}
  /\ bp' = [bp EXCEPT !.isPaused = FALSE, !.status = "running"]
  /\ UNCHANGED <<videos, cfg, policy, run, store>>

BPCancel ==
  /\ bp.pc \in {"head", "attempt"}
  /\ bp' = [bp EXCEPT !.isCancelled = TRUE, !.status = "cancelled"]
  /\ UNCHANGED <<videos, cfg, policy, run, store>>

(* ------------------------------ adapters ------------------------------ *)
\* ipfsService.unpinHash(hash) is called
UnpinHash ==
  /\ policy.cmd = "IpfsService"
  /\ \E hash \in Hashes, nodeUp, removalOk \in BOOLEAN :
       store' = unpinHashCall(store, hash, nodeUp, removalOk)
  /\ UNCHANGED <<videos, cfg, policy, run, bp>>

\* s3Service.deleteObject(key) is called
DeleteObject ==
  /\ policy.cmd = "S3Service"
  /\ \E key \in Keys, bucketUp, removalOk \in BOOLEAN :
       store' = deleteObjectCall(store, key, bucketUp, removalOk)
  /\ UNCHANGED <<videos, cfg, policy, run, bp>>

(* ------------------------------ actions ------------------------------- *)
\* run r is at an item of command cmd's loop
AtItem(r, cmd, pc) ==
  policy.cmd = cmd /\ run[r].phase = "running" /\ run[r].pc = pc

\* the item's handler has run to its end
Handled(r, res) ==
  /\ run' = [run EXCEPT ![r] = res.run]
  /\ videos' = res.coll
  /\ UNCHANGED <<cfg, policy, bp, store>>

CleanupItem(r) ==
  /\ AtItem(r, "cleanup", "item")
  /\ \E o \in Outcomes(Backends, OneWrite, {FALSE}) :
       Handled(r, cleanupItem(run[r], videos, o))

Cleanup2Item(r) ==
  /\ AtItem(r, "cleanup2", "item")
  /\ \E o \in Outcomes(Backends, OneWrite, {FALSE}) :
       Handled(r, cleanup2Item(run[r], videos, o))

NukeItem(r) ==
  /\ AtItem(r, "nuke-account", "item")
  /\ \E o \in Outcomes(Backends, OneWrite, {FALSE}) :
       Handled(r, nukeItem(run[r], videos, o))

PurgeFailedItem(r) ==
  /\ AtItem(r, "purge-failed", "item")
  /\ \E o \in Outcomes({"ok", "fail"}, TwoWrites, {FALSE}) :
       Handled(r, purgeFailedItem(run[r], videos, o))

PurgeAbandonedItem(r) ==
  /\ AtItem(r, "purge-abandoned", "item")
  /\ \E o \in Outcomes({"ok", "fail"}, TwoWrites, {FALSE}) :
       Handled(r, purgeAbandonedItem(run[r], videos, o))

SlimUserItem(r) ==
  /\ AtItem(r, "slim-user", "item")
  /\ \E o \in Outcomes(Backends, OneWrite, {FALSE}) :
       Handled(r, slimUserItem(run[r], videos, o))

StorageDietItem(r) ==
  /\ AtItem(r, "storage-diet", "item")
  /\ \E o \in Outcomes(Backends, OneWrite, {FALSE}) :
       Handled(r, storageDietItem(run[r], videos, o))

PurgeBannedRecheck(r) ==
  /\ AtItem(r, "purge-banned", "item")
  /\ \E o \in Outcomes({"ok"}, OneWrite, {FALSE}) :
       Handled(r, purgeBannedRecheck(run[r], videos, o))

PurgeBannedItem(r) ==
  /\ AtItem(r, "purge-banned", "checked")
  /\ \E o \in Outcomes({"ok", "fail"}, OneWrite, {FALSE}) :
       Handled(r, purgeBannedItem(run[r], videos, o))

IpfsDietItem(r) ==
  /\ AtItem(r, "ipfs-diet", "item")
  /\ \E o \in Outcomes({"ok", "fail"}, OneWrite, {FALSE}) :
       Handled(r, ipfsDietItem(run[r], videos, o))

PurgeS3Item(r) ==
  /\ AtItem(r, "purge-s3", "item")
  /\ \E o \in Outcomes({"ok", "fail"}, OneWrite, BOOLEAN) :
       Handled(r, purgeS3Item(run[r], videos, o))

ReconcileS3Item(r) ==
  /\ AtItem(r, "reconcile-s3", "item")
  /\ \E o \in Outcomes({"ok", "fail"}, OneWrite, BOOLEAN) :
       Handled(r, reconcileS3Item(run[r], videos, o))

\* the pause between two batches is over
Sleep(r) ==
  /\ run[r].phase = "sleeping"
  /\ run' = [run EXCEPT ![r].phase = "running"]
  /\ UNCHANGED <<videos, cfg, policy, bp, store>>

\* ProgressManager.startOperation, completeOperation and errorOperation: the
\* status of the operation in the operations map that is broadcast to the
\* clients of the progress stream
startOperation(rn) == [rn EXCEPT !.opStatus = "running"]
completeOperation(rn) ==
  [rn EXCEPT !.opStatus = "completed", !.terminal = Append(@, "operation_completed")]
errorOperation(rn) ==
  [rn EXCEPT !.opStatus = "error", !.terminal = Append(@, "operation_error")]

\* the <command>WithProgress wrappers: "try { await <command>Internal(...);
\* progressManager.completeOperation(operationId) } catch (error) {
\* progressManager.errorOperation(operationId, error.message); throw error }",
\* around a command whose dry-run branch may have called
\* progressManager.completeOperation(operationId) itself, and the catch of the
\* route that awaits the wrapper, which calls errorOperation again; a command
\* started from the command line (opStatus "none") has no operation
commandWithProgress(rn) ==
  IF rn.opStatus = "none" THEN rn
  ELSE IF rn.phase = "done"
    THEN completeOperation(IF rn.completesInPreview THEN completeOperation(rn) ELSE rn)
  ELSE IF rn.phase = "failed" THEN errorOperation(errorOperation(rn))
  ELSE rn

\* the loop is over: the summary is logged and the command returns
Finish(r) ==
  /\ run[r].phase = "summary"
  /\ run' = [run EXCEPT ![r] = commandWithProgress([run[r] EXCEPT !.phase = "done"])]
  /\ UNCHANGED <<videos, cfg, policy, bp, store>>

Ended(r) == run[r].phase \in {"done", "failed"}

\* the same command line is given again once the first invocation has returned
StartInTurn(r) ==
  /\ r = 1 \/ Ended(1)
  /\ StartRun(r)

Next ==
  \/ UnpinHash
  \/ DeleteObject
  \/ BPStart
  \/ BPLoopHead
  \/ BPAttempt
  \/ BPPause
  \/ BPResume
  \/ BPCancel
  \/ \E r \in Runs :
    \/ StartInTurn(r)
    \/ CleanupItem(r)
    \/ Cleanup2Item(r)
    \/ NukeItem(r)
    \/ PurgeFailedItem(r)
    \/ PurgeBannedRecheck(r)
    \/ PurgeBannedItem(r)
    \/ IpfsDietItem(r)
    \/ PurgeS3Item(r)
    \/ ReconcileS3Item(r)
    \/ Sleep(r)
    \/ Finish(r)

Spec == Init /\ [][Next]_vars

(* --------------------------- web operations --------------------------- *)
\* the commands the web server starts as operations (POST /api/<command>),
\* always with confirm: false and dryRun: dryRun !== false
WebCommands == {"cleanup2", "nuke-account", "purge-failed", "purge-banned", "ipfs-diet"}

WebPolicies ==
  {p \in Policies : /\ p.cmd \in WebCommands
                     /\ ~p.confirm
                     /\ p.dryRun \in {"true", "false"}
                     /\ (p.cmd = "cleanup2" => p.ctype = "admin-deleted")}

\* the one operation the web server is asked for
Operations == {1}

InitWeb ==
  /\ \E c \in Catalogs : videos = [v \in VideoIds |-> NewVideo(c[v])]
  /\ cfg \in [requireConfirmation : BOOLEAN]
  /\ policy \in WebPolicies
  /\ run = [r \in Runs |-> IdleRun(videos)]
  /\ bp = NoBatchProcessor
  /\ store = EmptyStore

\* POST /api/<command>: startOperation, then the command with progress in
\* the background
StartOperation(r) ==
  /\ run[r].phase = "idle"
  /\ \E queryOk, exists, s3Up, answerYes \in BOOLEAN :
       run' = [run EXCEPT ![r] =
                 commandWithProgress(startOperation(
                   startCommand(videos, cfg, policy, queryOk, exists, s3Up, answerYes)))]
  /\ UNCHANGED <<videos, cfg, policy, bp, store>>

\* the operation is in its loop (a request can be posted at any time; the
\* ones posted while the operation executes are followed here)
Executing(r) == run[r].opStatus = "running" /\ run[r].phase \in {"running", "sleeping"}

\* POST /api/operations/:operationId/pause -> ProgressManager.pauseOperation:
\* 'operation_pause_requested' is broadcast to the clients; request is the
\* last request broadcast and requestedAt the item the loop was at
PauseOperation(r) ==
  /\ Executing(r) /\ run[r].request \in {"none", "resume"}
  /\ run' = [run EXCEPT ![r].request = "pause", ![r].requestedAt = run[r].i]
  /\ UNCHANGED <<videos, cfg, policy, bp, store>>

\* .../resume -> ProgressManager.resumeOperation
ResumeOperation(r) ==
  /\ Executing(r) /\ run[r].request = "pause"
  /\ run' = [run EXCEPT ![r].request = "resume", ![r].requestedAt = 0]
  /\ UNCHANGED <<videos, cfg, policy, bp, store>>

\* .../cancel -> ProgressManager.cancelOperation
CancelOperation(r) ==
  /\ Executing(r) /\ run[r].request # "cancel"
  /\ run' = [run EXCEPT ![r].request = "cancel", ![r].requestedAt = run[r].i]
  /\ UNCHANGED <<videos, cfg, policy, bp, store>>

NextWeb ==
  \E r \in Operations :
    \/ StartOperation(r)
    \/ Cleanup2Item(r)
    \/ NukeItem(r)
    \/ PurgeFailedItem(r)
    \/ PurgeBannedRecheck(r)
    \/ PurgeBannedItem(r)
    \/ IpfsDietItem(r)
    \/ Sleep(r)
    \/ Finish(r)
    \/ PauseOperation(r)
    \/ ResumeOperation(r)
    \/ CancelOperation(r)

SpecWeb == InitWeb /\ [][NextWeb]_vars

(* ----------------------- the two purge commands ----------------------- *)
\* the catalogs that also hold abandoned manual publishes
PurgeCatalogs ==
  {c \in [VideoIds -> Profiles \cup {ProfIpfsAbandoned}] :
     \A i, j \in VideoIds : i < j => c[i].ageDays >= c[j].ageDays}

InitPurge ==
  /\ \E c \in PurgeCatalogs : videos = [v \in VideoIds |-> NewVideo(c[v])]
  /\ cfg \in [requireConfirmation : BOOLEAN]
  /\ policy \in PurgePolicies
  /\ run = [r \in Runs |-> IdleRun(videos)]
  /\ bp = NoBatchProcessor
  /\ store = EmptyStore

NextPurge ==
  \E r \in Runs :
    \/ StartInTurn(r)
    \/ PurgeFailedItem(r)
    \/ PurgeAbandonedItem(r)
    \/ Sleep(r)
    \/ Finish(r)

SpecPurge == InitPurge /\ [][NextPurge]_vars

(* -------------------------- the storage diet -------------------------- *)
InitDiet ==
  /\ \E c \in Catalogs : videos = [v \in VideoIds |-> NewVideo(c[v])]
  /\ cfg \in [requireConfirmation : BOOLEAN]
  /\ policy \in DietPolicies
  /\ run = [r \in Runs |-> IdleRun(videos)]
  /\ bp = NoBatchProcessor
  /\ store = EmptyStore

NextDiet ==
  \E r \in Runs :
    \/ StartInTurn(r)
    \/ StorageDietItem(r)
    \/ Sleep(r)
    \/ Finish(r)

SpecDiet == InitDiet /\ [][NextDiet]_vars

(* ------------------ a paused run that is cancelled -------------------- *)
\* a BatchProcessor whose caller pauses it and then cancels it, and makes no
\* other call: the loop polls every second while it waits and the processor's
\* promise settles, so the loop head and the attempt are taken when they can be
InitPauseCancel ==
  /\ \E c \in Catalogs : videos = [v \in VideoIds |-> NewVideo(c[v])]
  /\ cfg \in [requireConfirmation : BOOLEAN]
  /\ policy \in LibraryPolicies
  /\ run = [r \in Runs |-> IdleRun(videos)]
  /\ bp = NoBatchProcessor
  /\ store = EmptyStore

PauseOnce == ~bp.isPaused /\ ~bp.isCancelled /\ BPPause

CancelPaused == bp.isPaused /\ ~bp.isCancelled /\ BPCancel

NextPauseCancel ==
  \/ BPStart
  \/ BPLoopHead
  \/ BPAttempt
  \/ PauseOnce
  \/ CancelPaused

SpecPauseCancel ==
  InitPauseCancel /\ [][NextPauseCancel]_vars
    /\ WF_vars(BPLoopHead) /\ WF_vars(BPAttempt)

(* ----------------------------- slim-user ------------------------------ *)
\* the catalogs that also hold old published S3 videos
SlimCatalogs ==
  {c \in [VideoIds -> Profiles \cup {ProfS3Old}] :
     \A i, j \in VideoIds : i < j => c[i].ageDays >= c[j].ageDays}

InitSlim ==
  /\ \E c \in SlimCatalogs : videos = [v \in VideoIds |-> NewVideo(c[v])]
  /\ cfg \in [requireConfirmation : BOOLEAN]
  /\ policy \in SlimPolicies
  /\ run = [r \in Runs |-> IdleRun(videos)]
  /\ bp = NoBatchProcessor
  /\ store = EmptyStore

NextSlim ==
  \E r \in Runs :
    \/ StartInTurn(r)
    \/ SlimUserItem(r)
    \/ Sleep(r)
    \/ Finish(r)

SpecSlim == InitSlim /\ [][NextSlim]_vars

(* ------------------------- overlapping runs --------------------------- *)
\* two invocations of one destructive command that overlap in time
ConcurrentPolicies ==
  {p \in Policies : p.cmd \in {"nuke-account", "purge-banned"}
                    /\ p.dryRun = "false" /\ ~p.confirm}

InitConc ==
  /\ \E c \in Catalogs : videos = [v \in VideoIds |-> NewVideo(c[v])]
  /\ cfg \in [requireConfirmation : BOOLEAN]
  /\ policy \in ConcurrentPolicies
  /\ run = [r \in Runs |-> IdleRun(videos)]
  /\ bp = NoBatchProcessor
  /\ store = EmptyStore

\* the second invocation starts at any time after the first
StartOverlapping(r) ==
  /\ r = 1 \/ run[1].phase # "idle"
  /\ StartRun(r)

NextConc ==
  \E r \in Runs :
    \/ StartOverlapping(r)
    \/ NukeItem(r)
    \/ PurgeBannedRecheck(r)
    \/ PurgeBannedItem(r)
    \/ Sleep(r)
    \/ Finish(r)

SpecConc == InitConc /\ [][NextConc]_vars

(* ------------------------------ claims -------------------------------- *)
MutatingCalls(r) == {c \in run[r].calls : c.m \in MutatingMethods}
CallsFor(r, v) == {c \in run[r].calls : c.v = v}
\* run r has changed a backend or written to the catalog
Mutated(r) == MutatingCalls(r) # {} \/ run[r].marks # {} \/ run[r].writes # {}
\* run r went through its execution loop to the end
Executed(r) == run[r].phase = "done" /\ run[r].mode = "exec"
\* run r went into its item loop (a dry run of reconcile-s3 does too, and
\* reconcile-s3 without --batch-size has no item in its loop)
InLoop(r) ==
  IF policy.cmd = "reconcile-s3"
    THEN run[r].mode \in {"exec", "preview"} /\ policy.batchSize > 0
    ELSE run[r].mode = "exec"
\* run r executed, cleaned every candidate and met no failure
CleanSweep(r) ==
  /\ Executed(r)
  /\ run[r].marked = Range(run[r].cand)
  /\ run[r].failed = {}
  /\ \A v \in VideoIds : run[r].errors[v] = 0

\* C1: when the same command line is executed a second time after a first
\* execution that cleaned every candidate without a failure, the second run
\* is a no-op for what the first has cleaned: it invokes no mutating adapter
\* method and writes no cleanup mark for any of those videos.
C1_SecondRunIsNoOp ==
  CleanSweep(1) =>
    \A v \in run[1].marked :
      v \notin run[2].marks /\ CallsFor(2, v) \cap MutatingCalls(2) = {}

\* C2: no backend adapter method is ever invoked for a video that the
\* classifier calls unknown.
C2_UnknownNeverReachesAdapter ==
  \A r \in Runs : \A c \in run[r].calls :
    c.v \in VideoIds => getVideoStorageType(videos[c.v]) # "unknown"

\* C3: of two overlapping execution runs, only the first to reach a video
\* works on it: no video gets adapter calls or a cleanup mark from both runs
\* once one of them has marked it cleaned.
C3_SecondRunSkipsCleaned ==
  \A v \in VideoIds :
    v \in run[1].marked \cup run[2].marked =>
      ~(/\ v \in run[1].marks \/ CallsFor(1, v) # {}
        /\ v \in run[2].marks \/ CallsFor(2, v) # {})

\* C4: the cleanup mark of a video is written only when the backend work for
\* it succeeded: a video whose adapter call failed is not marked by that run.
C4_MarkOnlyAfterSuccess ==
  \A r \in Runs : \A v \in run[r].failed :
    v \notin run[r].marks /\ ~videos[v].cleanedUp

\* C5: within one run deleteObjectsWithPrefix is invoked at most once for a
\* prefix, whichever videos resolve to it.
C5_PrefixDeletedOnce ==
  \A r \in Runs : \A c, d \in run[r].calls :
    (c.m = "deleteObjectsWithPrefix" /\ d.m = c.m /\ d.loc = c.loc) => d.v = c.v

\* C6: in nuke-account a video one of whose locators was already handled in
\* the run (the adapter call is skipped) is still marked cleaned by a write of
\* its own, unless its handler threw and the video is in the error list.
C6_DuplicateStillMarked ==
  \A r \in Runs : \A v \in run[r].skippedDup :
    (v \in run[r].marked /\ videos[v].cleanedUp) \/ run[r].errors[v] > 0

\* a video whose every locator was a duplicate got no adapter call and is
\* cleaned by the run
C6_Witness ==
  \E r \in Runs : \E v \in run[r].skippedDup :
    /\ policy.cmd = "nuke-account"
    /\ CallsFor(r, v) = {}
    /\ v \in run[r].marked /\ videos[v].cleanedUp

\* C7 as stated: a dry run makes no call into a backend adapter and no write
\* to the catalog, whatever the command.
C7_PreviewCallsNothing ==
  \A r \in Runs :
    run[r].mode = "preview" =>
      run[r].calls = {} /\ run[r].marks = {} /\ run[r].writes = {}

\* C7 amended: a dry run invokes no mutating adapter method and writes nothing
\* to the catalog; the adapter methods it does invoke only read.
C7_PreviewMutatesNothing ==
  \A r \in Runs :
    run[r].mode = "preview" =>
      /\ \A c \in run[r].calls : c.m \in ReadOnlyMethods
      /\ run[r].marks = {} /\ run[r].writes = {}
      /\ \A v \in VideoIds : videos[v] = run[r].snap[v] \/ Mutated(3 - r)

\* a finished dry run that found a video missing from S3
C7_Witness ==
  \E r \in Runs : \E c \in run[r].calls :
    /\ run[r].mode = "preview" /\ run[r].phase = "done"
    /\ policy.cmd = "reconcile-s3"
    /\ c.m = "objectExists" /\ c.loc[2] = Resolutions[Len(Resolutions)]

\* C8: an item that throws does not end the run: a command fails only before
\* its loop, and a run that reaches its summary has gone through every
\* candidate, the ones after a thrown item included; a BatchProcessor that
\* returns without having been cancelled has called the processor on every
\* batch, the ones after a failed batch included.
C8_RunNeverAborted ==
  /\ \A r \in Runs :
       /\ run[r].phase = "failed" => run[r].cand = <<>>
       /\ (InLoop(r) /\ run[r].phase \in {"summary", "done"}) =>
            run[r].i = Len(run[r].cand) + 1
       /\ run[r].phase \in {"running", "sleeping"} => run[r].i <= Len(run[r].cand)
  /\ (bp.pc = "returned" /\ ~bp.isCancelled) =>
       /\ bp.attempted = 1..bp.totalBatches
       /\ bp.status = IF bp.errors > 0 THEN "error" ELSE "completed"

\* the first item of a purge-failed run threw and the second was cleaned
C8_Witness ==
  \E r \in Runs :
    /\ policy.cmd = "purge-failed" /\ Executed(r) /\ Len(run[r].cand) >= 2
    /\ run[r].errors[run[r].cand[1]] = 1 /\ run[r].cand[1] \notin run[r].marked
    /\ run[r].cand[2] \in run[r].marked

\* C9: at the end of an execution run the error list holds exactly the failed
\* items: one entry for each item whose adapter call failed or whose handler
\* threw, none for an item the run marked cleaned.
C9_ErrorsAreTheFailures ==
  \A r \in Runs :
    Executed(r) =>
      \A v \in Range(run[r].cand) :
        /\ v \in run[r].marked => run[r].errors[v] = 0
        /\ v \in run[r].failed => run[r].errors[v] = 1
        /\ run[r].errors[v] <= 1

\* C10: a run changes a backend or the catalog only if its caller gave an
\* explicit non-default flag for it (--no-confirm, --no-dry-run) or answered
\* the prompt of reconcile-s3.
C10_MutationNeedsConfirmation ==
  \A r \in Runs :
    Mutated(r) =>
      ~policy.confirm \/ policy.dryRun = "false" \/ policy.cmd = "reconcile-s3"

\* the candidates classified as `kind` that a run over cand handles
candidatesOfKind(coll, cand, kind) ==
  Cardinality({k \in 1..Len(cand) : getVideoStorageType(coll[cand[k]]) = kind})

\* the list an execution run with the options of the preview iterates over
executionCandidates(coll, p) == SelectCandidates(coll, [p EXCEPT !.dryRun = "false"])

\* C11 (count and bytes only): the number of videos and the bytes of a preview
\* summary are those of the list the execution iterates over.
C11_CountAndBytesAgree ==
  \A r \in Runs :
    LET rep == run[r].report
        todo == executionCandidates(videos, policy)
    IN (rep.made /\ videos = run[r].snap) =>
         /\ rep.totalVideos = Len(todo)
         /\ rep.totalSize = Sum([k \in 1..Len(todo) |-> videos[todo[k]].size])

\* C11: the candidate count, the per-backend-kind breakdown and the total
\* bytes of a preview summary equal what an execution run started right after
\* it with the same options, on the unchanged catalog, processes.
C11_PreviewEqualsExecution ==
  \A r \in Runs :
    LET rep == run[r].report
        todo == executionCandidates(videos, policy)
    IN (rep.made /\ videos = run[r].snap) =>
         /\ rep.totalVideos = Len(todo)
         /\ rep.totalSize = Sum([k \in 1..Len(todo) |-> videos[todo[k]].size])
         /\ rep.hasBreakdown =>
              /\ rep.ipfs = candidatesOfKind(videos, todo, "ipfs")
              /\ rep.s3 = candidatesOfKind(videos, todo, "s3")
              /\ rep.other = candidatesOfKind(videos, todo, "unknown")

\* the commands whose final summary reports the bytes freed
ReportsStorageFreed ==
  {"cleanup", "cleanup2", "nuke-account", "purge-failed", "purge-banned", "ipfs-diet"}

\* C12: at the end of an execution run the bytes reported freed are the sum
\* of the sizes of exactly the records the run marked cleaned.
C12_FreedIsSizeOfMarked ==
  \A r \in Runs :
    (Executed(r) /\ policy.cmd \in ReportsStorageFreed) =>
      LET marked == SortCreatedAsc(run[r].marked)
      IN run[r].totalStorageFreed
           = Sum([k \in 1..Len(marked) |-> run[r].snap[marked[k]].size])

\* C12 for the commands that add the size after the mark is written
C12_FreedAfterMark ==
  \A r \in Runs :
    (Executed(r) /\ policy.cmd \in {"cleanup", "cleanup2", "nuke-account"}) =>
      LET marked == SortCreatedAsc(run[r].marked)
      IN run[r].totalStorageFreed
           = Sum([k \in 1..Len(marked) |-> run[r].snap[marked[k]].size])

\* C13: every status write moves a record's status to "deleted", and a record
\* whose status is "deleted" is never given another status.
C13_StatusOnlyTowardDeleted ==
  [][\A v \in VideoIds :
       /\ videos'[v].status # videos[v].status => videos'[v].status = "deleted"
       /\ videos[v].status = "deleted" => videos'[v].status = "deleted"]_vars

\* a run wrote the status of a record that was not deleted, and one wrote the
\* mark of a record an admin had deleted
C13_Witness ==
  /\ \E r \in Runs : \E v \in run[r].writes \cup run[r].marked :
       run[r].snap[v].status # "deleted" /\ videos[v].status = "deleted"
  /\ \E r \in Runs : \E v \in run[r].marked :
       run[r].snap[v].status = "deleted" /\ videos[v].wasManuallyDeleted

\* C14: no command line of the model opts in to already-processed records
\* (excludeCleaned: true, or no --include-optimized), so the list a run
\* selects holds no record that was marked cleaned when it was selected.
C14_SelectsNoCleanedRecord ==
  \A r \in Runs : \A v \in Range(run[r].cand) : ~run[r].snap[v].cleanedUp

\* C15: once a pause or a cancel has been requested for an executing
\* operation, at most the item in progress at the request is still handled:
\* the loop never gets past the item after it.
C15_SignalStopsNextItem ==
  \A r \in Operations :
    run[r].request \in {"pause", "cancel"} => run[r].i <= run[r].requestedAt + 1

\* C16: an adapter call that ends as a failure after a backend error has sent
\* its failed request more than once (it was retried before it was given up).
C16_FailedCallWasRetried ==
  \A r \in Runs : \A m \in RetriableMethods :
    LET call == run[r].lastCall[m]
    IN ~call.ok =>
         \E i, j \in 1..Len(call.requests) : i < j /\ call.requests[i] = call.requests[j]

\* C17: an operation that is reported to the subscribers as plainly
\* "completed" has an empty error list.
C17_CompletedMeansNoErrors ==
  \A r \in Operations :
    run[r].opStatus = "completed" => \A v \in VideoIds : run[r].errors[v] = 0

\* C17 for the BatchProcessor alone, whose final status tells the two apart
C17_BatchProcessorStatus ==
  bp.pc = "returned" /\ ~bp.isCancelled =>
    (bp.status = "completed" <=> bp.errors = 0) /\ (bp.status = "error" <=> bp.errors > 0)

\* C18 for the loops of the commands: the step that handles the last item of
\* a batch that is not the last batch leaves the run in its pause.
C18_CommandLoopsPause ==
  [][\A r \in Runs :
       (run[r].phase = "running" /\ run'[r].i = run[r].i + 1
          /\ IsBatchEnd(run[r]) /\ run'[r].i <= Len(run[r].cand))
         => run'[r].phase = "sleeping"]_vars

\* C18: between the end of a batch and the start of the next one the pacing
\* delay elapses, in the loops of the commands and in a BatchProcessor that
\* was given a delay.
C18_BatchesArePaced ==
  [][/\ \A r \in Runs :
          (run[r].phase = "running" /\ run'[r].i = run[r].i + 1
             /\ IsBatchEnd(run[r]) /\ run'[r].i <= Len(run[r].cand))
            => run'[r].phase = "sleeping"
     /\ (bp.delayBetweenBatches > 0 /\ bp'.i > bp.i /\ bp'.i < bp.totalItems)
          => bp'.paced]_vars

\* C19: the candidates of a run are in the order of their creation, oldest
\* first.
C19_CandidatesOldestFirst ==
  \A r \in Runs : \A i, j \in 1..Len(run[r].cand) :
    i < j => /\ run[r].cand[i] < run[r].cand[j]
             /\ run[r].snap[run[r].cand[i]].ageDays >= run[r].snap[run[r].cand[j]].ageDays

\* C19 for the commands that select with getVideosForCleanup or getVideosByOwner
C19_CleanupSelectorsOldestFirst ==
  \A r \in Runs : \A i, j \in 1..Len(run[r].cand) :
    (selectorOf(policy) # "getVideosByCriteria" /\ i < j)
      => run[r].cand[i] < run[r].cand[j]

\* C20: the catalog query of every run that has selected carries a
\* server-side time limit.
C20_QueryHasTimeBound ==
  \A r \in Runs : run[r].phase # "idle" => run[r].queryMaxTimeMS > 0

\* C21: every call of unpinHash asks for the pin status first, and a call for
\* a hash that is not pinned returns true and has sent no pin/rm.
C21_UnpinAbsentIsNoOp ==
  [][\A hash \in Hashes :
       (store'.call # store.call /\ store'.call.m = "unpinHash"
          /\ store'.call.arg = <<hash>>)
         => /\ store'.call.requests[1] = "pin/ls"
            /\ (hash \notin store.pinned /\ store'.call.check # "throws")
                 => /\ store'.call.result
                    /\ store'.call.requests = <<"pin/ls">>
                    /\ store'.pinned = store.pinned]_vars

\* unpinHash was called for a hash the node had not pinned and returned true
C21_Witness ==
  /\ store.call.m = "unpinHash" /\ store.call.check = "no"
  /\ store.call.result /\ store.call.arg[1] \notin store.pinned

\* C22: every call of deleteObject asks whether the object exists first, and
\* a call for a missing object returns true and has sent no DeleteObject.
C22_DeleteMissingIsNoOp ==
  [][\A key \in Keys :
       (store'.call # store.call /\ store'.call.m = "deleteObject"
          /\ store'.call.arg = key)
         => /\ store'.call.requests[1] = "HeadObject"
            /\ (key \notin store.objects /\ store'.call.check # "throws")
                 => /\ store'.call.result
                    /\ store'.call.requests = <<"HeadObject">>
                    /\ store'.objects = store.objects]_vars

\* deleteObject was called for a key the bucket did not hold and returned true
C22_Witness ==
  /\ store.call.m = "deleteObject" /\ store.call.check = "no"
  /\ store.call.result /\ store.call.arg \notin store.objects

\* an item of a web operation's loop is finished in this step
C23_ItemFinished(r) == run[r].opStatus = "running" /\ run'[r].i > run[r].i

\* the command loops run as web operations publish a progress event with
\* every item they finish
C23_CommandsPublishEachItem ==
  [][\A r \in Runs : C23_ItemFinished(r) => run'[r].events > run[r].events]_vars

\* C23: the executor publishes a progress event to the subscribers after every
\* item and at every batch boundary: a web operation's loop publishes one with
\* every item it finishes, and a BatchProcessor has reported its progress at
\* least once for every item it has processed
C23_EventAfterEveryItem ==
  [][/\ \A r \in Runs : C23_ItemFinished(r) => run'[r].events > run[r].events
     /\ bp'.reports >= bp'.processedItems]_vars

\* a web operation's loop has finished an item and published its progress
C23_CommandWitness ==
  \E r \in Runs : run[r].opStatus = "running" /\ run[r].i > 1 /\ run[r].events > 0

\* the options leave dry-run to its default or ask for it
C24_DryRunNotDisabled ==
  policy.cmd \in {"purge-failed", "purge-abandoned"} /\ policy.dryRun # "false"

\* C24: purge-failed and purge-abandoned default to dry-run: unless dry-run is
\* explicitly set to false, a run calls no mutating backend method, writes
\* nothing to the catalog and leaves every document as it was
C24_DryRunByDefault ==
  C24_DryRunNotDisabled =>
    \A r \in Runs : ~Mutated(r) /\ run[r].mode # "exec" /\ videos = run[r].snap

\* a purge-abandoned run without a dry-run option found candidates and ended
\* after its preview
C24_Witness ==
  \E r \in Runs : /\ policy.cmd = "purge-abandoned" /\ policy.dryRun = "absent"
                  /\ run[r].phase = "done" /\ run[r].mode = "preview"
                  /\ run[r].cand # <<>>

\* the objects of a video the diet is to keep: the 480p playlist, a segment
\* under the 480p prefix and an image under the thumbnails prefix
C25_KeptObjects(video) ==
  IF video.permlink = Absent THEN {}
  ELSE {<<video.permlink, "480p.m3u8">>, <<video.permlink, "480p", "001.ts">>,
        <<video.permlink, "thumbnails", "default.png">>}

\* the call asks the bucket to delete the object key: by its key, or by a
\* prefix (a path ending in '/') the key begins with
C25_Deletes(c, key) ==
  \/ c.m \in {"deleteObject", "batchDelete"} /\ c.loc = key
  \/ /\ c.m = "deleteObjectsWithPrefix"
     /\ Len(c.loc) <= Len(key)
     /\ SubSeq(key, 1, Len(c.loc) - 1) = SubSeq(c.loc, 1, Len(c.loc) - 1)

\* C25: the execution of the storage diet keeps the 480p rendition: no call it
\* makes deletes the 480p playlist, an object under the 480p segment prefix or
\* an object under the thumbnails prefix of a video
C25_Keeps480p ==
  policy.cmd = "storage-diet" =>
    \A r \in Runs : \A c \in run[r].calls : \A v \in VideoIds :
      \A key \in C25_KeptObjects(run[r].snap[v]) : ~C25_Deletes(c, key)

\* the two filters do keep what they name: no deleteObject on the 480p
\* playlist, no deleteObjectsWithPrefix on the 480p or thumbnails prefix
C25_FiltersKeepNamedPaths ==
  policy.cmd = "storage-diet" =>
    \A r \in Runs : \A c \in run[r].calls :
      /\ c.m = "deleteObject" => c.loc[Len(c.loc)] # "480p.m3u8"
      /\ c.m = "deleteObjectsWithPrefix" =>
           ~(Len(c.loc) = 3 /\ c.loc[2] \in {"480p", "thumbnails"})

\* C26: for every operation at most one terminal event (operation_completed or
\* operation_error) is broadcast, and an operation reported as error is never
\* later reported as completed
C26_OneTerminalEvent ==
  \A r \in Runs :
    /\ Len(run[r].terminal) <= 1
    /\ \A j, k \in 1..Len(run[r].terminal) :
         j < k /\ run[r].terminal[j] = "operation_error"
           => run[r].terminal[k] # "operation_completed"

\* no operation_completed follows an operation_error, and the terminal events
\* of one operation are all of one type
C26_NoCompletedAfterError ==
  \A r \in Runs : \A j, k \in 1..Len(run[r].terminal) :
    run[r].terminal[j] = run[r].terminal[k]

\* after cancel() no batch is started that had not started already
C27_NoBatchStartsAfterCancel ==
  [][bp.isCancelled => bp'.currentBatch = bp.currentBatch]_vars

\* C27: after cancel() is called on a BatchProcessor no batch that has not
\* already started is started, and the run ends with status cancelled
C27_CancelIsFinal ==
  [][/\ bp.isCancelled => bp'.currentBatch = bp.currentBatch
     /\ (bp'.pc = "returned" /\ bp'.isCancelled) => bp'.status = "cancelled"]_vars

\* C28: once the status of a BatchProcessor is cancelled, completed or error,
\* no later call of pause(), resume() or cancel() changes it
C28_TerminalStatusKept ==
  [][bp.status \in {"cancelled", "completed", "error"} => bp'.status = bp.status]_vars

\* C29: a BatchProcessor that is paused starts no new batch while it is
\* paused, and when it is then cancelled without having been resumed the run
\* returns with status cancelled instead of waiting forever
C29_PausedThenCancelledEnds ==
  /\ [][(bp.isPaused /\ bp.pc # "none") => bp'.currentBatch = bp.currentBatch]_vars
  /\ (bp.isPaused /\ bp.isCancelled) ~> (bp.pc = "returned" /\ bp.status = "cancelled")

\* a run paused before its last batch was cancelled and has returned
C29_Witness ==
  /\ bp.pc = "returned" /\ bp.isPaused /\ bp.isCancelled /\ bp.status = "cancelled"
  /\ bp.currentBatch < bp.totalBatches

\* C30: when a batch fails after all its retries the BatchProcessor records
\* exactly one error for it, does not add its items to processedItems and goes
\* on to the next batch; a run that returns without having been cancelled has
\* called the processor on every batch and counts as processed exactly the
\* items of the batches that did not fail
C30_FailedBatchIsCountedOnce ==
  [][/\ (bp.pc = "attempt" /\ bp'.errors # bp.errors) =>
          /\ bp.retry = RetryLimit(bp)
          /\ bp'.errors = bp.errors + 1
          /\ bp'.processedItems = bp.processedItems
          /\ bp'.pc = "head" /\ bp'.i = bp.i + bp.batchSize
     /\ (bp'.pc = "returned" /\ ~bp'.isCancelled) =>
          /\ bp'.attempted = 1..bp'.totalBatches
          /\ bp'.errors <= bp'.totalBatches
          /\ bp'.errors > 0 => bp'.processedItems < bp'.totalItems]_vars

\* the first batch failed after its retries and a later batch was processed
C30_Witness ==
  /\ bp.pc = "returned" /\ ~bp.isCancelled /\ bp.totalBatches >= 2
  /\ bp.errors = 1 /\ bp.processedItems > 0 /\ bp.attempted = 1..bp.totalBatches

\* whatever maxRetries is, the processor is called at most RetryLimit + 1
\* times for a batch and the wait after the r-th failed attempt is 2^r seconds
C31_RetriesBounded ==
  /\ bp.retry <= RetryLimit(bp)
  /\ bp.backoff = IF bp.retry = 0 THEN 0 ELSE retryDelay(bp.retry - 1)

\* C31: for a configured maxRetries = n, n >= 0, the processor is called at
\* most n + 1 times for one batch (the call about to be made is number
\* retry + 1), the wait after the r-th failed attempt is 2^r seconds, and the
\* number of attempts is bounded
C31_AtMostNPlusOneCalls ==
  /\ bp.pc = "attempt" => bp.retry + 1 <= bp.maxRetries + 1
  /\ bp.backoff = IF bp.retry = 0 THEN 0 ELSE retryDelay(bp.retry - 1)

C33_PublishedCountMonotone ==
  \A r \in Runs :
    /\ \A k \in 1..Len(run[r].published) : run[r].published[k] <= Len(run[r].cand)
    /\ \A j, k \in 1..Len(run[r].published) :
         j < k => run[r].published[j] <= run[r].published[k]

\* the published count never exceeds the number of candidates
C33_PublishedWithinTotal ==
  \A r \in Runs :
    \A k \in 1..Len(run[r].published) : run[r].published[k] <= Len(run[r].cand)

\* C34: at the end of an execution run the processed counter is the number of
\* selected candidates: every candidate is counted once, whether it succeeded,
\* failed or was skipped
C34_ProcessedCountsEveryCandidate ==
  \A r \in Runs :
    (Executed(r) /\ policy.cmd \in {"cleanup", "cleanup2", "ipfs-diet", "purge-failed"})
      => run[r].processed = Len(run[r].cand)

\* purge-failed, whose catch block counts the item, counts every candidate,
\* and no command counts a candidate twice
C34_PurgeFailedCountsAll ==
  \A r \in Runs :
    /\ (Executed(r) /\ policy.cmd = "purge-failed") => run[r].processed = Len(run[r].cand)
    /\ run[r].processed <= Len(run[r].cand)

\* C35: a slim-user optimization removes only the resolutions it does not
\* keep and never changes the status of the record it optimized to deleted
C35_SlimKeepsStatus ==
  policy.cmd = "slim-user" =>
    \A r \in Runs : \A v \in run[r].marked :
      run[r].snap[v].status # "deleted" => videos[v].status # "deleted"

\* slim-user asks for no deletion of the 480p playlist, of an object under
\* the 480p prefix or of a thumbnail
C35_SlimKeeps480p ==
  policy.cmd = "slim-user" =>
    \A r \in Runs : \A c \in run[r].calls : \A v \in VideoIds :
      \A key \in C25_KeptObjects(run[r].snap[v]) : ~C25_Deletes(c, key)

\* the commands that write the status 'deleted' themselves before they mark
C36_StatusWriters == {"purge-failed", "purge-abandoned", "purge-banned"}

\* C36: markVideoAsCleanedUp records wasManuallyDeleted = true only for a
\* record whose status was 'deleted' before the cleanup of that record began
\* (the records marked by the first run, before any other run has started)
C36_ManuallyDeletedMeansWasDeleted ==
  run[2].phase = "idle" =>
    \A v \in run[1].marked :
      videos[v].wasManuallyDeleted => run[1].snap[v].status = "deleted"

\* the commands that only mark record wasManuallyDeleted as the claim says
C36_MarkAloneIsExact ==
  (policy.cmd \notin C36_StatusWriters /\ run[2].phase = "idle") =>
    \A v \in run[1].marked :
      videos[v].wasManuallyDeleted <=> run[1].snap[v].status = "deleted"

====
